---- MODULE Spec2Model ----
(***************************************************************************)
(* Model of the charm release reconciler (scripts/charm_release.py) and of *)
(* the helpers it drives: RevisionMatrix and Bundle (util/charmhub.py),    *)
(* the test-plan-instance lookup and creation (util/sqa.py), TrackState    *)
(* and the per-track dispatch.                                             *)
(***************************************************************************)
EXTENDS Integers, Sequences, FiniteSets, TLC

VARIABLES
    tracks,       \* main: the list of tracks of the run (args.supported_tracks)
    candidate,    \* Charmhub: track -> charm -> matrix released on <track>/candidate
    stable,       \* Charmhub: track -> charm -> matrix released on <track>/stable
    pvs,          \* SQA: product versions, in creation order (uuid = index)
    addons,       \* SQA: addons, in creation order (uuid = index)
    tpis,         \* SQA: test plan instances, in creation order
    proc,         \* per invocation of the script: its position and locals
    env,          \* bookkeeping of what the outside world did (budgets, history)
    ubundle,      \* a Bundle built by set() calls        (SpecBundle)
    ustate,       \* a TrackState built by set_state calls (SpecAgg)
    uout,         \* the last result computed on ubundle / ustate
    snap,         \* the snap store's channel map, the clock and promote_tracks' last run
    gen           \* a PriorityGenerator and the threads calling it (SpecPriority)

vars == <<tracks, candidate, stable, pvs, addons, tpis, proc, env, ubundle, ustate, uout,
          snap, gen>>

-----------------------------------------------------------------------------
(* Bounds of the model *)

MaxRev == 2        \* revisions are 1..MaxRev
MaxTpis == 2       \* test plan instances after which no further test ends in error
MaxPublish == 1    \* releases to a candidate channel by the outside world
MaxFaults == 1     \* failing external calls per behaviour
MaxSets == 3       \* set()/set_state() calls in the pure-function specifications
MaxTime == 12      \* the clock of the snap store stops at this half day
MaxReleases == 1   \* "promote" runs of promote_tracks per behaviour
NThreads == 2      \* threads sharing one PriorityGenerator
MaxCalls == 2      \* reads of next_priority per thread

-----------------------------------------------------------------------------
(* Universe *)

None == 0
Revs == 1..MaxRev

Archs == {"amd64", "arm64"}
\* the cells of the store the model populates (a part of the 6 x 2 grid that
\* get_revision_matrix queries)
StoreCells == {<<"amd64", "22.04">>, <<"amd64", "24.04">>, <<"arm64", "22.04">>}

AllTracks == {"1.32", "1.33"}
BundleCharms == <<"k8s", "k8s-worker">>
Charms == {BundleCharms[i] : i \in 1..Len(BundleCharms)}

Range(s) == {s[i] : i \in 1..Len(s)}

-----------------------------------------------------------------------------
(* RevisionMatrix: a dict (arch, base) -> revision, as a function whose      *)
(* DOMAIN is the set of keys present.                                       *)

EmptyMatrix == <<>>

RM_set(m, arch, base, revision) ==
    [k \in (DOMAIN m) \cup {<<arch, base>>} |->
        IF k = <<arch, base>> THEN revision ELSE m[k]]

RM_get_archs(m) == {k[1] : k \in DOMAIN m}

RM_get_bases(m) == {k[2] : k \in DOMAIN m}

RM_get(m, arch, base) == IF <<arch, base>> \in DOMAIN m THEN m[<<arch, base>>] ELSE None

\* matrices that never compare equal
RM_eq_never(m1, m2) == FALSE

\* RevisionMatrix.__eq__
RM_eq(m1, m2) == m1 = m2

RM_bool(m) ==
    IF DOMAIN m = {} THEN FALSE ELSE \A k \in DOMAIN m : m[k] # None

\* Python truthiness of a revision: None (and 0) are falsy
Truthy(revision) == revision # None

-----------------------------------------------------------------------------
(* Bundle: name, and a dict charm -> Optional[RevisionMatrix].  keys is the *)
(* dict's insertion order; an entry is <<>> (None) or <<matrix>>.           *)

NewBundle(name) == [name |-> name, keys |-> <<>>, data |-> <<>>]

BundleKeys(b) == Range(b.keys)

Bundle_set(b, charm, entry) ==
    [b EXCEPT
        !.keys = IF charm \in Range(b.keys) THEN b.keys ELSE Append(b.keys, charm),
        !.data = [c \in Range(b.keys) \cup {charm} |->
                    IF c = charm THEN entry ELSE b.data[c]]]

IsNoneEntry(e) == e = <<>>
Mat(b, charm) == b.data[charm][1]

\* is_testable with `ref` the charm whose matrix random.choice returned
is_testable_ref(b, ref) ==
    LET item == Mat(b, ref)
        bases == RM_get_bases(item)
        archs == RM_get_archs(item)
    IN \A c \in BundleKeys(b) :
          /\ RM_get_bases(Mat(b, c)) = bases
          /\ RM_get_archs(Mat(b, c)) = archs
          /\ \A base \in bases : \A arch \in archs :
                ~(Truthy(RM_get(item, arch, base)) /\ ~Truthy(RM_get(Mat(b, c), arch, base)))

\* the references random.choice can return
Refs(b) == BundleKeys(b)

Degenerate(b) ==
    \/ Len(b.keys) = 0
    \/ \E c \in BundleKeys(b) : IsNoneEntry(b.data[c])

is_testable(b, ref) ==
    IF Degenerate(b) THEN FALSE ELSE is_testable_ref(b, ref)

Bundle_get_bases(b, ref) == RM_get_bases(Mat(b, ref))

Bundle_get_archs(b, ref) == RM_get_archs(Mat(b, ref))

\* str(revision) for the revisions of the model
RevStr(r) ==
    CASE r = 1 -> "1" [] r = 2 -> "2" [] r = 3 -> "3" [] r = 4 -> "4" [] OTHER -> "5"

Digits == {RevStr(r) : r \in 1..5}

\* a charm name split at "-"
CharmTokens(charm) ==
    CASE charm = "k8s" -> <<"k8s">>
      [] charm = "k8s-worker" -> <<"k8s", "worker">>
      [] OTHER -> <<charm>>

\* sorted(): the rank of a charm name in Python's string order
CharmRank(charm) == CASE charm = "k8s" -> 1 [] charm = "k8s-worker" -> 2 [] OTHER -> 3

RECURSIVE SortedCharms(_)
SortedCharms(S) ==
    IF S = {} THEN <<>>
    ELSE LET c == CHOOSE x \in S : \A y \in S : CharmRank(x) <= CharmRank(y)
         IN <<c>> \o SortedCharms(S \ {c})

NoVersion == <<>>

\* a version that leaves out the components without a revision at the cell
RECURSIVE VersionFrom_skipping(_, _, _, _, _)
VersionFrom_skipping(b, charms, arch, base, version) ==
    IF charms = <<>> THEN version
    ELSE LET charm == Head(charms)
             revision == IF IsNoneEntry(b.data[charm]) THEN None
                         ELSE RM_get(Mat(b, charm), arch, base)
         IN VersionFrom_skipping(b, Tail(charms), arch, base,
                IF Truthy(revision)
                THEN version \o CharmTokens(charm) \o <<RevStr(revision)>>
                ELSE version)

RECURSIVE VersionFrom(_, _, _, _, _)
VersionFrom(b, charms, arch, base, version) ==
    IF charms = <<>> THEN version
    ELSE LET charm == Head(charms)
         IN IF IsNoneEntry(b.data[charm]) \/ ~RM_bool(Mat(b, charm)) THEN NoVersion
            ELSE LET revision == RM_get(Mat(b, charm), arch, base)
                 IN IF ~Truthy(revision) THEN NoVersion
                    ELSE VersionFrom(b, Tail(charms), arch, base,
                            version \o CharmTokens(charm) \o <<RevStr(revision)>>)

\* the version string, as its list of "-"-separated tokens; NoVersion is None
Bundle_get_version(b, arch, base) ==
    LET charms == SortedCharms(BundleKeys(b))
    IN IF charms = <<>> THEN NoVersion
       ELSE VersionFrom(b, charms, arch, base, b.name)

\* {f"{charm.replace('-', '_')}_revision": revision}, keyed here by charm
Bundle_get_revisions(b, arch, base) ==
    [c \in BundleKeys(b) |-> RM_get(Mat(b, c), arch, base)]

-----------------------------------------------------------------------------
(* TestPlanInstanceStatus and TrackState *)

IN_PROGRESS == "In Progress"
SKIPPED == "skipped"
ERROR == "error"
ABORTED == "aborted"
FAILURE == "failure"
SUCCESS == "success"
UNKNOWN == "unknown"
PASSED == "Passed"
FAILED == "Failed"
RELEASED == "Released"

TestPlanInstanceStatus ==
    {IN_PROGRESS, SKIPPED, ERROR, ABORTED, FAILURE, SUCCESS, UNKNOWN, PASSED, FAILED, RELEASED}

\* what current_test_plan_instance_status returns for "no status"
NoStatus == "None"

Status_in_progress(s) == s = IN_PROGRESS

Status_succeeded(s) == s = PASSED

Status_failed(s) == s \in {FAILED}

\* TrackState._state_map: a dict version -> status
NewTrackState == <<>>

TS_set_state(ts, version, state) ==
    [v \in (DOMAIN ts) \cup {version} |-> IF v = version THEN state ELSE ts[v]]

TS_empty(ts) == DOMAIN ts = {}

TS_failed(ts) == \E v \in DOMAIN ts : Status_failed(ts[v])

\* mutant: any() where the code has all()
TS_succeeded_any(ts) ==
    IF TS_empty(ts) THEN FALSE ELSE \E v \in DOMAIN ts : Status_succeeded(ts[v])

TS_succeeded(ts) ==
    IF TS_empty(ts) THEN FALSE ELSE \A v \in DOMAIN ts : Status_succeeded(ts[v])

\* mutant: in progress is not suppressed by failed
TS_in_progress_unsuppressed(ts) == \E v \in DOMAIN ts : Status_in_progress(ts[v])

TS_in_progress(ts) ==
    IF TS_failed(ts) THEN FALSE ELSE \E v \in DOMAIN ts : Status_in_progress(ts[v])

PROCESS_SUCCESS == "process_success"
PROCESS_IN_PROGRESS == "process_in_progress"
PROCESS_FAILED == "process_failed"
PROCESS_CI_FAILED == "process_ci_failed"
PROCESS_UNCHANGED == "process_unchanged"

ProcessState ==
    {PROCESS_SUCCESS, PROCESS_IN_PROGRESS, PROCESS_FAILED, PROCESS_CI_FAILED, PROCESS_UNCHANGED}

\* the if/elif chain of process_track over the aggregated state: the branch taken
Branch(ts) ==
    IF TS_empty(ts) THEN "empty"
    ELSE IF TS_succeeded(ts) THEN "succeeded"
    ELSE IF TS_in_progress(ts) THEN "in_progress"
    ELSE IF TS_failed(ts) THEN "failed"
    ELSE "unknown"

\* the ProcessState the branch returns when none of its calls raises
BranchResult(branch) ==
    CASE branch = "empty" -> PROCESS_CI_FAILED
      [] branch = "succeeded" -> PROCESS_SUCCESS
      [] branch = "in_progress" -> PROCESS_IN_PROGRESS
      [] branch = "failed" -> PROCESS_FAILED
      [] OTHER -> PROCESS_CI_FAILED

-----------------------------------------------------------------------------
(* The test platform (util/sqa.py).  A channel is <<track, risk>>.          *)

NoSeries == "no series"

get_series(base) ==
    CASE base = "24.04" -> "noble"
      [] base = "22.04" -> "jammy"
      [] base = "20.04" -> "focal"
      [] OTHER -> NoSeries

NoMatch == "no match"

\* re.search(r"k8s-(\d+)", version): the digits after the first "k8s-" that
\* is followed by digits
K8sRevision(version) ==
    LET hits == {i \in 1..(Len(version) - 1) :
                    version[i] = "k8s" /\ version[i + 1] \in Digits}
    IN IF hits = {} THEN NoMatch
       ELSE version[(CHOOSE i \in hits : \A j \in hits : i <= j) + 1]

\* the checks _product_versions makes before it runs a command
InvalidSQAInput(base, version) ==
    get_series(base) = NoSeries \/ K8sRevision(version) = NoMatch

\* "productversion list --channel C --revision R --series S": the uuids found
ProductVersionList(pv, channel, revision, series) ==
    {i \in 1..Len(pv) :
        /\ pv[i].channel = channel
        /\ pv[i].revision = revision
        /\ pv[i].series = series}

_product_versions(pv, channel, base, version) ==
    ProductVersionList(pv, channel, K8sRevision(version), get_series(base))

\* "testplaninstance list --productversion-uuid U --status S"
_test_plan_instances(tp, productversion_uuid, status) ==
    {i \in 1..Len(tp) : tp[i].pv = productversion_uuid /\ tp[i].status = status}

_joined_test_plan_instances(tp, product_versions, status) ==
    UNION {_test_plan_instances(tp, u, status) : u \in product_versions}

\* mutant: the instances in progress are not looked up
status_without_in_progress(pv, tp, channel, base, version) ==
    LET product_versions == _product_versions(pv, channel, base, version)
    IN IF product_versions = {} THEN NoStatus
       ELSE IF _joined_test_plan_instances(tp, product_versions, PASSED) # {} THEN PASSED
       ELSE IF _joined_test_plan_instances(tp, product_versions, FAILED) # {} THEN FAILED
       ELSE NoStatus

\* mutant: failed is looked up before in progress
status_failed_first(pv, tp, channel, base, version) ==
    LET product_versions == _product_versions(pv, channel, base, version)
    IN IF product_versions = {} THEN NoStatus
       ELSE IF _joined_test_plan_instances(tp, product_versions, PASSED) # {} THEN PASSED
       ELSE IF _joined_test_plan_instances(tp, product_versions, FAILED) # {} THEN FAILED
       ELSE IF _joined_test_plan_instances(tp, product_versions, IN_PROGRESS) # {}
            THEN IN_PROGRESS
       ELSE NoStatus

\* a lookup that reports instances in error as such
status_with_error(pv, tp, channel, base, version) ==
    LET product_versions == _product_versions(pv, channel, base, version)
    IN IF product_versions = {} THEN NoStatus
       ELSE IF _joined_test_plan_instances(tp, product_versions, PASSED) # {} THEN PASSED
       ELSE IF _joined_test_plan_instances(tp, product_versions, IN_PROGRESS) # {}
            THEN IN_PROGRESS
       ELSE IF _joined_test_plan_instances(tp, product_versions, FAILED) # {} THEN FAILED
       ELSE IF _joined_test_plan_instances(tp, product_versions, ERROR) # {} THEN ERROR
       ELSE NoStatus

\* current_test_plan_instance_status when no command fails and the input is valid
current_test_plan_instance_status(pv, tp, channel, base, version) ==
    LET product_versions == _product_versions(pv, channel, base, version)
    IN IF product_versions = {} THEN NoStatus
       ELSE IF _joined_test_plan_instances(tp, product_versions, PASSED) # {} THEN PASSED
       ELSE IF _joined_test_plan_instances(tp, product_versions, IN_PROGRESS) # {}
            THEN IN_PROGRESS
       ELSE IF _joined_test_plan_instances(tp, product_versions, FAILED) # {} THEN FAILED
       ELSE NoStatus

\* util.patch_sqa_variables: the addon's template variables; it touches nothing
\* of the platform
patch_sqa_variables(track, variables) == variables

\* "addon show NAME": the uuids of the addons of that name
AddonShow(ad, name) == {i \in 1..Len(ad) : ad[i].name = name}

\* The commands start_release_test runs, in order.  A fault is <<step, kind>>:
\* kind "exit" is a non-zero exit (the command did nothing, SQAFailure), kind
\* "garbled" is output that does not parse (the command acted; pydantic's
\* ValidationError is no SQAFailure and nothing catches it).
SRT_PV_LIST == "productversion list"
SRT_PV_ADD == "productversion add"
SRT_ADDON_SHOW == "addon show"
SRT_ADDON_ADD == "addon add"
SRT_TPI_ADD == "testplaninstance add"

NoFault == <<"none", "none">>
StartFaults ==
    {NoFault} \cup
    ({SRT_PV_LIST, SRT_PV_ADD, SRT_ADDON_SHOW, SRT_ADDON_ADD, SRT_TPI_ADD} \X {"exit", "garbled"})

NoException == "none"
UNCAUGHT == "uncaught"

Raised(kind) == IF kind = "exit" THEN "SQAFailure" ELSE UNCAUGHT

SRT_Result(pv, ad, tp, exc, hit) ==
    [pvs |-> pv, addons |-> ad, tpis |-> tp, exc |-> exc, hit |-> hit]

\* a creation that first compares: no second instance for a product version
\* and an addon that have one
SRT_tpi_once(pv, ad, tp, pvid, addonid, priority, fault, hit) ==
    IF \E i \in 1..Len(tp) : tp[i].pv = pvid /\ tp[i].addon = addonid
    THEN SRT_Result(pv, ad, tp, NoException, hit)
    ELSE SRT_Result(pv, ad, Append(tp, [pv |-> pvid, addon |-> addonid,
                                        status |-> IN_PROGRESS, priority |-> priority]),
                    NoException, hit)

\* _create_test_plan_instance
SRT_tpi(pv, ad, tp, pvid, addonid, priority, fault, hit) ==
    LET tp1 == Append(tp, [pv |-> pvid, addon |-> addonid, status |-> IN_PROGRESS,
                           priority |-> priority])
    IN IF fault[1] = SRT_TPI_ADD
       THEN SRT_Result(pv, ad, IF fault[2] = "exit" THEN tp ELSE tp1, Raised(fault[2]), TRUE)
       ELSE SRT_Result(pv, ad, tp1, NoException, hit)

\* _create_addon (with _get_addon), then the test plan instance
SRT_addon(pv, ad, tp, pvid, version, variables, priority, fault) ==
    LET showFails == fault[1] = SRT_ADDON_SHOW
        shown == IF showFails /\ fault[2] = "exit" THEN {} ELSE AddonShow(ad, version)
        ad1 == Append(ad, [name |-> version, variables |-> variables])
    IN IF showFails /\ fault[2] = "garbled" THEN SRT_Result(pv, ad, tp, UNCAUGHT, TRUE)
       ELSE IF Cardinality(shown) > 1 THEN SRT_Result(pv, ad, tp, "SQAFailure", showFails)
       ELSE IF shown # {}
            THEN SRT_tpi(pv, ad, tp, pvid, CHOOSE i \in shown : TRUE, priority, fault, FALSE)
       ELSE IF fault[1] = SRT_ADDON_ADD
            THEN SRT_Result(pv, IF fault[2] = "exit" THEN ad ELSE ad1, tp, Raised(fault[2]), TRUE)
       ELSE SRT_tpi(pv, ad1, tp, pvid, Len(ad1), priority, fault, showFails)

\* start_release_test(channel, base, arch, revisions, version, priority)
start_release_test(pv, ad, tp, channel, base, arch, revisions, version, priority, fault) ==
    IF InvalidSQAInput(base, version) THEN SRT_Result(pv, ad, tp, "InvalidSQAInput", FALSE)
    ELSE IF fault[1] = SRT_PV_LIST THEN SRT_Result(pv, ad, tp, Raised(fault[2]), TRUE)
    ELSE LET product_versions == _product_versions(pv, channel, base, version)
             pv1 == Append(pv, [channel |-> channel, revision |-> K8sRevision(version),
                                series |-> get_series(base)])
             variables == patch_sqa_variables(channel[1],
                             [base |-> base, arch |-> arch, channel |-> channel,
                              revisions |-> revisions])
         IN IF Cardinality(product_versions) > 1 THEN SRT_Result(pv, ad, tp, "SQAFailure", FALSE)
            ELSE IF product_versions # {}
                 THEN SRT_addon(pv, ad, tp, CHOOSE i \in product_versions : TRUE,
                                version, variables, priority, fault)
            ELSE IF fault[1] = SRT_PV_ADD
                 THEN SRT_Result(IF fault[2] = "exit" THEN pv ELSE pv1, ad, tp,
                                 Raised(fault[2]), TRUE)
            ELSE SRT_addon(pv1, ad, tp, Len(pv1), version, variables, priority, fault)

-----------------------------------------------------------------------------
(* The artifact store (util/charmhub.py) *)

CANDIDATE == "candidate"
STABLE == "stable"

\* get_revision_matrix: one find_revision request per (base, arch); a request
\* answered with a status other than 200 yields None and its cell stays unset.
\* `released` is what the channel holds, `lost` the cells whose request failed.
get_revision_matrix(released, lost) ==
    [k \in {c \in DOMAIN released : c \notin lost /\ Truthy(released[c])} |-> released[k]]

\* mutant: the promotion releases nothing
promote_charm_nothing(st, ca, track, charm) == st

\* "charmcraft promote CHARM FROM TO": the target channel gets what the source
\* channel holds at the time of the call
promote_charm(st, ca, track, charm) == [st EXCEPT ![track][charm] = ca[track][charm]]

-----------------------------------------------------------------------------
(* One invocation of scripts/charm_release.py *)

Procs == {1, 2}

BundleName == <<"k8s", "operator">>

NoResult == "no result"

\* the locals of process_track at the start of a track
TrackLocals(pr) ==
    [pr EXCEPT !.bundle = NewBundle(BundleName), !.at_least_one = FALSE,
               !.todo = {}, !.cur = <<>>, !.track_state = NewTrackState,
               !.result = NoResult, !.branch = "none", !.pidx = 0,
               !.promoted = <<>>, !.started = {}, !.looked = {}, !.faulted = FALSE,
               !.clean = FALSE, !.verdict = <<>>]

IdleProc ==
    [pc |-> "idle", dry_run |-> FALSE, ti |-> 0, priority |-> 0, results |-> <<>>,
     bundle |-> NewBundle(BundleName), at_least_one |-> FALSE, todo |-> {}, cur |-> <<>>,
     track_state |-> NewTrackState, result |-> NoResult, branch |-> "none", pidx |-> 0,
     promoted |-> <<>>, started |-> {}, looked |-> {}, faulted |-> FALSE, clean |-> FALSE,
     verdict |-> <<>>, issued |-> <<>>, created |-> <<>>, calls |-> <<>>]

\* an exception nothing catches ends main: no further track, no results.txt
Crashed(pr, exc) == [IdleProc EXCEPT !.pc = "crashed", !.ti = pr.ti, !.branch = exc]

Track(p) == tracks[proc[p].ti]
Channel(p) == <<Track(p), CANDIDATE>>

AllDirty == [t \in AllTracks |-> TRUE]

\* the outside world acted: every track's "nothing changed since" flag falls
Disturbed(e) == [e EXCEPT !.changed = TRUE, !.dirty = AllDirty]

StoreUnchanged == UNCHANGED <<candidate, stable>>
SqaUnchanged == UNCHANGED <<pvs, addons, tpis>>
PureUnchanged == UNCHANGED <<ubundle, ustate, uout, snap, gen>>

\* main(): parse the arguments, make the PriorityGenerator, enter the loop
StartRun(p) ==
    /\ proc[p].pc \in {"idle", "done", "crashed"}
    /\ \E dry \in BOOLEAN :
          proc' = [proc EXCEPT ![p] =
                      [TrackLocals(IdleProc) EXCEPT !.pc = "fetch", !.dry_run = dry, !.ti = 1]]
    /\ UNCHANGED <<tracks, env>>
    /\ StoreUnchanged /\ SqaUnchanged /\ PureUnchanged

\* the faults of the store queries of one track: none, a request that raises
\* (ConnectionError, Timeout: no HTTPError, so no except clause matches), or
\* one request answered with a status other than 200
FetchFaults(track) ==
    {<<"none">>, <<"raise">>} \cup
    {<<"status", charm, risk, cell>> :
        charm \in Charms, risk \in {CANDIDATE, STABLE}, cell \in StoreCells}

Lost(fault, charm, risk) ==
    IF fault[1] = "status" /\ fault[2] = charm /\ fault[3] = risk THEN {fault[4]} ELSE {}

RECURSIVE CollectBundle(_, _, _, _, _)
\* the loop over bundle_charms of process_track: <<bundle, at_least_one_charm_in_candidate>>
CollectBundle(charms, track, fault, b, atLeast) ==
    IF charms = <<>> THEN <<b, atLeast>>
    ELSE LET charm == Head(charms)
             candidate_revision_matrix ==
                 get_revision_matrix(candidate[track][charm], Lost(fault, charm, CANDIDATE))
             stable_revision_matrix ==
                 get_revision_matrix(stable[track][charm], Lost(fault, charm, STABLE))
         IN IF ~RM_bool(candidate_revision_matrix)
            THEN CollectBundle(Tail(charms), track, fault,
                               Bundle_set(b, charm, <<stable_revision_matrix>>), atLeast)
            ELSE IF RM_eq(candidate_revision_matrix, stable_revision_matrix)
            THEN CollectBundle(Tail(charms), track, fault,
                               Bundle_set(b, charm, <<stable_revision_matrix>>), atLeast)
            ELSE CollectBundle(Tail(charms), track, fault,
                               Bundle_set(b, charm, <<candidate_revision_matrix>>), TRUE)

\* a fault that changes what the queries return
FaultBites(fault, track) ==
    \/ fault[1] = "raise"
    \/ /\ fault[1] = "status"
       /\ fault[4] \in DOMAIN (IF fault[3] = CANDIDATE THEN candidate[track][fault[2]]
                               ELSE stable[track][fault[2]])

\* process_track, lines 157-191: query both channels of every charm
Fetch(p) ==
    /\ proc[p].pc = "fetch"
    /\ \E fault \in FetchFaults(Track(p)) :
          /\ fault = <<"none">> \/ (env.faultsLeft > 0 /\ FaultBites(fault, Track(p)))
          /\ LET got == CollectBundle(BundleCharms, Track(p), fault,
                                      NewBundle(BundleName), FALSE)
                 bites == fault # <<"none">>
             IN /\ proc' = [proc EXCEPT ![p] =
                     IF fault[1] = "raise"
                     THEN Crashed(@, UNCAUGHT)
                     ELSE [@ EXCEPT !.pc = "testable", !.bundle = got[1],
                                    !.at_least_one = got[2], !.faulted = bites,
                                    !.clean = ~env.dirty[Track(p)] /\ ~bites]]
                /\ env' = [(IF bites THEN Disturbed(env) ELSE env) EXCEPT
                              !.faultsLeft = IF bites THEN @ - 1 ELSE @,
                              !.dirty[Track(p)] = FALSE]
    /\ UNCHANGED tracks
    /\ StoreUnchanged /\ SqaUnchanged /\ PureUnchanged

\* the cells of every architecture that have a version
EffectiveCells_any_arch(b, archs, bases) ==
    {c \in archs \X bases : Bundle_get_version(b, c[1], c[2]) # NoVersion}

\* the cells ensure_track_state acts on: amd64 only, and a version for the cell
EffectiveCells(b, archs, bases) ==
    {c \in archs \X bases : c[1] = "amd64" /\ Bundle_get_version(b, c[1], c[2]) # NoVersion}

\* process_track, lines 193-199, and the entry of ensure_track_state
CheckTestable(p) ==
    /\ proc[p].pc = "testable"
    /\ \E ref \in Refs(proc[p].bundle), ra \in Refs(proc[p].bundle), rb \in Refs(proc[p].bundle) :
          proc' = [proc EXCEPT ![p] =
              IF ~is_testable(proc[p].bundle, ref)
              THEN [@ EXCEPT !.pc = "record", !.result = PROCESS_UNCHANGED,
                             !.branch = "not testable"]
              ELSE IF ~proc[p].at_least_one
              THEN [@ EXCEPT !.pc = "record", !.result = PROCESS_UNCHANGED,
                             !.branch = "nothing pending"]
              ELSE [@ EXCEPT !.pc = "cells",
                             !.todo = EffectiveCells(proc[p].bundle,
                                         Bundle_get_archs(proc[p].bundle, ra),
                                         Bundle_get_bases(proc[p].bundle, rb))]]
    /\ UNCHANGED <<tracks, env>>
    /\ StoreUnchanged /\ SqaUnchanged /\ PureUnchanged


\* track_state.set_state(version, state) for a cell, in ensure_track_state: the
\* state lands under the cell's version; verdict keeps it under the cell
SetCellState(pr, cell, version, state) ==
    [pr EXCEPT !.track_state = TS_set_state(@, version, state),
               !.verdict = [c \in (DOMAIN @) \cup {cell} |-> IF c = cell THEN state ELSE @[c]]]

\* a generator that issues its value without counting
next_priority_stuck(value) == value

\* PriorityGenerator.next_priority
next_priority(value) == value + 1

\* the process_track result an exception of the try block is turned into
Caught(exc) == exc \in {"SQAFailure", "CharmcraftFailure", "InvalidSQAInput"}

\* leave process_track through an exception raised inside its try block
RaiseIn(pr, exc) ==
    IF Caught(exc)
    THEN [pr EXCEPT !.pc = "record", !.result = PROCESS_CI_FAILED, !.branch = exc]
    ELSE Crashed(pr, exc)

LookupFaults == {"none", "exit", "garbled"}

\* ensure_track_state, lines 127-149 up to the call of start_release_test: take
\* the next cell, draw its priority, look its test plan instances up
CellLookup(p) ==
    /\ proc[p].pc = "cells"
    /\ \E cell \in proc[p].todo, fault \in LookupFaults :
          LET pr == proc[p]
              version == Bundle_get_version(pr.bundle, cell[1], cell[2])
              priority == next_priority(pr.priority)
              status == current_test_plan_instance_status(pvs, tpis, Channel(p), cell[2], version)
              taken == [pr EXCEPT !.todo = @ \ {cell}, !.priority = priority,
                                  !.looked = @ \cup {cell}, !.cur = cell,
                                  !.issued = Append(@, priority)]
          IN /\ fault = "none" \/ (env.faultsLeft > 0 /\ ~InvalidSQAInput(cell[2], version))
             /\ proc' = [proc EXCEPT ![p] =
                   IF InvalidSQAInput(cell[2], version) THEN RaiseIn(taken, "InvalidSQAInput")
                   ELSE IF fault # "none"
                   THEN RaiseIn([taken EXCEPT !.faulted = TRUE], Raised(fault))
                   ELSE IF status = NoStatus
                   THEN IF pr.dry_run
                        THEN SetCellState(taken, cell, version, IN_PROGRESS)
                        ELSE [taken EXCEPT !.pc = "start"]
                   ELSE SetCellState(taken, cell, version, status)]
             /\ env' = IF fault = "none" THEN env
                       ELSE [Disturbed(env) EXCEPT !.faultsLeft = @ - 1]
    /\ UNCHANGED tracks
    /\ StoreUnchanged /\ SqaUnchanged /\ PureUnchanged

\* the arguments of a call of sqa.start_release_test
StartCall(channel, base, arch, revisions, version, priority) ==
    [channel |-> channel, base |-> base, arch |-> arch, revisions |-> revisions,
     version |-> version, priority |-> priority]

\* the priority of the test plan instance just created, with the priorities
\* the generator had issued by then
Creation(tp, issued) == [priority |-> tp[Len(tp)].priority, issued |-> issued]

\* ensure_track_state, lines 143-147: start the release test of the cell
CellStart(p) ==
    /\ proc[p].pc = "start"
    /\ \E fault \in StartFaults :
          LET pr == proc[p]
              cell == pr.cur
              version == Bundle_get_version(pr.bundle, cell[1], cell[2])
              revisions == Bundle_get_revisions(pr.bundle, cell[1], cell[2])
              r == start_release_test(pvs, addons, tpis, Channel(p), cell[2], cell[1],
                                      revisions, version, pr.priority, fault)
              called == [pr EXCEPT !.started = @ \cup {cell}, !.faulted = @ \/ r.hit,
                                   !.calls = Append(@, StartCall(Channel(p), cell[2], cell[1],
                                                                 revisions, version, pr.priority)),
                                   !.created = IF Len(r.tpis) > Len(tpis)
                                               THEN Append(@, Creation(r.tpis, pr.issued))
                                               ELSE @]
          IN /\ fault = NoFault \/ (env.faultsLeft > 0 /\ r.hit)
             /\ pvs' = r.pvs
             /\ addons' = r.addons
             /\ tpis' = r.tpis
             /\ proc' = [proc EXCEPT ![p] =
                   IF r.exc # NoException THEN RaiseIn(called, r.exc)
                   ELSE SetCellState([called EXCEPT !.pc = "cells"], cell, version,
                                     IN_PROGRESS)]
             /\ env' = IF r.hit THEN [Disturbed(env) EXCEPT !.faultsLeft = @ - 1] ELSE env
    /\ UNCHANGED tracks
    /\ StoreUnchanged /\ PureUnchanged

\* process_track, lines 205-224: the aggregated state decides
Dispatch(p) ==
    /\ proc[p].pc = "cells"
    /\ proc[p].todo = {}
    /\ LET branch == Branch(proc[p].track_state)
       IN proc' = [proc EXCEPT ![p] =
             IF branch = "succeeded" /\ ~proc[p].dry_run
             THEN [@ EXCEPT !.pc = "promote", !.branch = branch, !.pidx = 1]
             ELSE [@ EXCEPT !.pc = "record", !.branch = branch,
                            !.result = BranchResult(branch)]]
    /\ UNCHANGED <<tracks, env>>
    /\ StoreUnchanged /\ SqaUnchanged /\ PureUnchanged

\* process_track, lines 213-215: promote the next charm of the list
Promote(p) ==
    /\ proc[p].pc = "promote"
    /\ \E fails \in BOOLEAN :
          LET pr == proc[p]
              charm == BundleCharms[pr.pidx]
              last == pr.pidx = Len(BundleCharms)
          IN /\ ~fails \/ env.faultsLeft > 0
             /\ stable' = IF fails THEN stable
                          ELSE promote_charm(stable, candidate, Track(p), charm)
             /\ proc' = [proc EXCEPT ![p] =
                   IF fails THEN RaiseIn([pr EXCEPT !.faulted = TRUE], "CharmcraftFailure")
                   ELSE IF last
                   THEN [pr EXCEPT !.pc = "record", !.promoted = Append(@, charm),
                                   !.result = BranchResult(pr.branch)]
                   ELSE [pr EXCEPT !.promoted = Append(@, charm), !.pidx = @ + 1]]
             /\ env' = IF fails THEN [Disturbed(env) EXCEPT !.faultsLeft = @ - 1] ELSE env
    /\ UNCHANGED <<tracks, candidate>>
    /\ SqaUnchanged /\ PureUnchanged

\* results[track] = str(process_state), unless in progress or unchanged
Report(results, track, process_state) ==
    IF process_state \in {PROCESS_IN_PROGRESS, PROCESS_UNCHANGED} THEN results
    ELSE [t \in (DOMAIN results) \cup {track} |->
             IF t = track THEN process_state ELSE results[t]]

\* main, lines 269-280: take process_track's result, go to the next track or
\* write results.txt
Record(p) ==
    /\ proc[p].pc = "record"
    /\ LET pr == proc[p]
           results == Report(pr.results, Track(p), pr.result)
       IN /\ proc' = [proc EXCEPT ![p] =
                IF pr.ti < Len(tracks)
                THEN [TrackLocals(pr) EXCEPT !.pc = "fetch", !.ti = @ + 1,
                                             !.results = results]
                ELSE [IdleProc EXCEPT !.pc = "done", !.results = results]]
          /\ env' = [env EXCEPT !.prev[Track(p)] =
                        pr.result = PROCESS_SUCCESS /\ Range(pr.promoted) = Charms]
    /\ UNCHANGED tracks
    /\ StoreUnchanged /\ SqaUnchanged /\ PureUnchanged

-----------------------------------------------------------------------------
(* The outside world *)

\* no invocation of the script is under way
Quiet == \A p \in Procs : proc[p].pc \in {"idle", "done", "crashed"}

\* the newest revision a channel holds (0: none)
NewestRevision(m) ==
    IF DOMAIN m = {} THEN 0 ELSE CHOOSE r \in {m[k] : k \in DOMAIN m} : \A k \in DOMAIN m : m[k] <= r

\* a new revision of a charm is released to a cell of a candidate channel,
\* between two invocations
Publish ==
    /\ Quiet
    /\ env.publishLeft > 0
    /\ \E track \in Range(tracks), charm \in Charms, cell \in StoreCells :
          LET revision == NewestRevision(candidate[track][charm]) + 1
          IN /\ revision \in Revs
             /\ candidate' = [candidate EXCEPT ![track][charm] =
                                 RM_set(@, cell[1], cell[2], revision)]
    /\ env' = [Disturbed(env) EXCEPT !.publishLeft = @ - 1]
    /\ UNCHANGED <<tracks, stable, proc>>
    /\ SqaUnchanged /\ PureUnchanged

\* the final statuses the lookup of current_test_plan_instance_status finds
Classified == {PASSED, FAILED}

\* the final statuses it does not ask for
Unclassified == {ERROR}

\* a running test plan instance ends with a verdict, between two invocations
TestEnds ==
    /\ Quiet
    /\ \E i \in 1..Len(tpis), status \in Classified :
          /\ tpis[i].status = IN_PROGRESS
          /\ tpis' = [tpis EXCEPT ![i].status = status]
    /\ env' = Disturbed(env)
    /\ UNCHANGED <<tracks, pvs, addons, proc>>
    /\ StoreUnchanged /\ PureUnchanged

\* a running test plan instance ends without a verdict, between two invocations
TestErrors ==
    /\ Quiet
    /\ Len(tpis) < MaxTpis
    /\ \E i \in 1..Len(tpis), status \in Unclassified :
          /\ tpis[i].status = IN_PROGRESS
          /\ tpis' = [tpis EXCEPT ![i].status = status]
    /\ env' = Disturbed(env)
    /\ UNCHANGED <<tracks, pvs, addons, proc>>
    /\ StoreUnchanged /\ PureUnchanged

-----------------------------------------------------------------------------
(* Bundle and TrackState on their own: built by any sequence of calls *)

\* the matrices set() is called with: any cells of the store, any revision or None
AnyMatrices == UNION {[D -> Revs \cup {None}] : D \in SUBSET StoreCells}

IdleBundle == NewBundle(BundleName)
IdleOut == [n |-> 0, kind |-> "none", value |-> FALSE]

\* Bundle.set(charm, revision_matrix)
USet ==
    /\ uout.n < MaxSets
    /\ \E charm \in Charms, m \in AnyMatrices :
          ubundle' = Bundle_set(ubundle, charm, <<m>>)
    /\ uout' = [n |-> uout.n + 1, kind |-> "set", value |-> FALSE]
    /\ UNCHANGED <<snap, gen, tracks, candidate, stable, pvs, addons, tpis, proc, env, ustate>>

\* Bundle.is_testable(), with the reference random.choice picks
UIsTestable ==
    /\ uout.kind = "set"
    /\ \E ref \in Refs(ubundle) :
          uout' = [uout EXCEPT !.kind = "is_testable", !.value = is_testable(ubundle, ref)]
    /\ UNCHANGED <<snap, gen, tracks, candidate, stable, pvs, addons, tpis, proc, env, ubundle, ustate>>

\* the versions TrackState is keyed with on its own
UVersions == {BundleName \o <<"k8s", RevStr(r)>> : r \in 1..MaxSets}

\* TrackState.set_state(version, state)
USetState ==
    /\ uout.n < MaxSets
    /\ \E version \in UVersions, state \in TestPlanInstanceStatus :
          ustate' = TS_set_state(ustate, version, state)
    /\ uout' = [n |-> uout.n + 1, kind |-> "set_state", value |-> FALSE]
    /\ UNCHANGED <<snap, gen, tracks, candidate, stable, pvs, addons, tpis, proc, env, ubundle>>

\* process_track, lines 207-233, on the state built so far: dry_run or not,
\* a promote_charm call that raises CharmcraftFailure or none
UDispatch ==
    /\ uout.kind \in {"none", "set_state"}
    /\ \E dry_run \in BOOLEAN, fails \in BOOLEAN :
          LET branch == Branch(ustate)
          IN uout' = [uout EXCEPT !.kind = "dispatch",
                 !.value = IF branch = "succeeded" /\ ~dry_run /\ fails
                           THEN PROCESS_CI_FAILED ELSE BranchResult(branch)]
    /\ UNCHANGED <<snap, gen, tracks, candidate, stable, pvs, addons, tpis, proc, env, ubundle, ustate>>

\* the cell current_test_plan_instance_status is asked about on its own
UChannel == <<"1.32", CANDIDATE>>
UBase == "22.04"
UVersion == BundleName \o <<"k8s", "1", "k8s", "worker", "1">>

\* the product versions of the platform: the cell's, and another revision's
UProductVersions ==
    <<[channel |-> UChannel, revision |-> "1", series |-> "jammy"],
      [channel |-> UChannel, revision |-> "2", series |-> "jammy"]>>

\* somebody adds a test plan instance, in any status, to a product version
UAddTpi ==
    /\ Len(tpis) < MaxSets
    /\ \E u \in 1..Len(pvs), status \in TestPlanInstanceStatus :
          tpis' = Append(tpis, [pv |-> u, addon |-> 1, status |-> status, priority |-> 1])
    /\ uout' = [n |-> Len(tpis) + 1, kind |-> "add", value |-> NoStatus]
    /\ UNCHANGED <<snap, gen, tracks, candidate, stable, pvs, addons, proc, env, ubundle, ustate>>

\* current_test_plan_instance_status(channel, base, version)
UStatus ==
    /\ uout.kind \in {"none", "add"}
    /\ uout' = [uout EXCEPT !.kind = "status",
                   !.value = current_test_plan_instance_status(pvs, tpis, UChannel, UBase, UVersion)]
    /\ UNCHANGED <<snap, gen, tracks, candidate, stable, pvs, addons, tpis, proc, env, ubundle, ustate>>

-----------------------------------------------------------------------------
(* The snap promotion (scripts/promote_tracks.py).  A track name is the     *)
(* sequence of its tokens: runs of digits, ".", and other text.  A channel  *)
(* name is <<track, risk>>.  Times count half days.                         *)

RISK_LEVELS == <<"edge", "beta", "candidate", "stable">>

\* None as the next risk of stable
NoRisk == "None"

NEXT_RISK == Tail(RISK_LEVELS) \o <<NoRisk>>

\* RISK_LEVELS.index(risk), counted from 1
RiskIndex(risk) == CHOOSE i \in 1..Len(RISK_LEVELS) : RISK_LEVELS[i] = risk

\* a next risk that skips a level
next_risk_skipping(risk) ==
    CASE risk = "edge" -> "candidate"
      [] risk = "stable" -> NoRisk
      [] OTHER -> "stable"

\* Channel.next_risk
next_risk(risk) == NEXT_RISK[RiskIndex(risk)]

DAYS_TO_STAY_IN_EDGE == 1
DAYS_TO_STAY_IN_BETA == 3
DAYS_TO_STAY_IN_CANDIDATE == 5

T_1_31 == <<"1", ".", "31">>
T_1_32 == <<"1", ".", "32">>
T_1_31_classic == <<"1", ".", "31", "-classic">>
T_1_32_classic == <<"1", ".", "32", "-classic">>
T_latest == <<"latest">>
\* "v1.32": no track of the shape major.minor[qualifier]
T_malformed == <<"v", "1", ".", "32">>

IGNORE_TRACKS == <<T_latest>>

\* int(s) of a run of digits
StrNum(s) ==
    CASE s = "0" -> 0 [] s = "1" -> 1 [] s = "30" -> 30 [] s = "31" -> 31
      [] s = "32" -> 32 [] OTHER -> 33

\* str(n)
NumStr(n) ==
    CASE n = 0 -> "0" [] n = 1 -> "1" [] n = 30 -> "30" [] n = 31 -> "31"
      [] n = 32 -> "32" [] n = 33 -> "33" [] OTHER -> "-1"

\* the runs of digits of the model's track names
DigitRuns == {"0", "1", "30", "31", "32", "33"}

\* TRACK_RE.match(track) for ^(\d+)\.(\d+)(\S*)$: is there a match
TRACK_RE_match(track) ==
    /\ Len(track) >= 3
    /\ track[1] \in DigitRuns
    /\ track[2] = "."
    /\ track[3] \in DigitRuns

\* match.groups(): maj, min, tail
TRACK_RE_groups(track) == <<track[1], track[3], SubSeq(track, 4, Len(track))>>

\* f"{maj}.{int(min)-1}{tail}"
PriorTrack(groups) == <<groups[1], ".", NumStr(StrNum(groups[2]) - 1)>> \o groups[3]

SnapArchs == {"amd64", "arm64"}

SnapTracks == {T_1_31, T_1_32, T_1_31_classic, T_1_32_classic, T_latest, T_malformed}

AllChannelNames == {<<t, RISK_LEVELS[i]>> : t \in SnapTracks, i \in 1..Len(RISK_LEVELS)}

\* the version of EMPTY_CHANNEL (None)
NoSnapVersion == "None"

\* the version string of a revision of the snap: revisions 1 and 2 are two
\* builds of one version, later revisions are builds of the next patch
SnapVersion(revision) == IF revision <= 2 THEN "v1.32.0" ELSE "v1.32.1"

\* EMPTY_CHANNEL = Channel(channel=ChannelMetadata())
EMPTY_CHANNEL == [revision |-> None, version |-> NoSnapVersion, released_at |-> None]

\* what snapstore.info reports for a channel that holds a revision
ChannelOf(revision, released_at) ==
    [revision |-> revision, version |-> SnapVersion(revision), released_at |-> released_at]

\* channels.get(name, EMPTY_CHANNEL)
ChannelGet(channels, name) ==
    IF name \in DOMAIN channels THEN channels[name] ELSE EMPTY_CHANNEL

\* a count of half days taken for a count of days
HalfDays(halfdays) == halfdays

\* (now - released_at_date).days: whole days, rounded down
Days(halfdays) == halfdays \div 2

\* the first of the given risks, from edge upward, for which the track has a channel
FirstFromEdge(track, risks, channels) ==
    LET present == {i \in 1..Len(RISK_LEVELS) :
                       RISK_LEVELS[i] \in risks /\ <<track, RISK_LEVELS[i]>> \in DOMAIN channels}
    IN IF present = {} THEN {}
       ELSE {<<track, RISK_LEVELS[CHOOSE i \in present : \A j \in present : i <= j]>>}

\* the first of the given risks, from stable downward, for which the track
\* has a channel: the loop "for source in reversed(...): if source in channels"
FirstFromStable(track, risks, channels) ==
    LET present == {i \in 1..Len(RISK_LEVELS) :
                       RISK_LEVELS[i] \in risks /\ <<track, RISK_LEVELS[i]>> \in DOMAIN channels}
    IN IF present = {} THEN {}
       ELSE {<<track, RISK_LEVELS[CHOOSE i \in present : \A j \in present : j <= i]>>}

\* _build_upgrade_channels raises ValueError
InvalidTrack(track) == ~TRACK_RE_match(track)

\* _build_upgrade_channels(channel, channels): the set of [source, target] pairs
\* (the list is this set sorted by source); name is the channel's name
_build_upgrade_channels(name, channels) ==
    LET track == name[1]
        nextRisk == next_risk(name[2])
        next_channel == <<track, nextRisk>>
        same_track_risks == {RISK_LEVELS[i] : i \in {j \in 1..Len(RISK_LEVELS) :
                                                      j > RiskIndex(nextRisk)}}
        prior_track == PriorTrack(TRACK_RE_groups(track))
        source_channels ==
            (IF next_channel \in DOMAIN channels THEN {next_channel} ELSE {})
            \cup FirstFromStable(track, same_track_risks, channels)
            \cup FirstFromStable(prior_track, Range(RISK_LEVELS), channels)
    IN {<<source, name>> : source \in
           {s \in source_channels : channels[name].revision # channels[s].revision}}

\* the thresholds of a run: days_to_stay_in_risk
DaysToStay(args, risk) ==
    CASE risk = "edge" -> args.days_in_edge_risk
      [] risk = "beta" -> args.days_in_beta_risk
      [] OTHER -> args.days_in_candidate_risk

\* purgatory_complete
purgatory_complete(name, channels, args, now) ==
    LET released_at == channels[name].released_at
    IN /\ released_at # None
       /\ Days(now - released_at) >= DaysToStay(args, name[2])
       /\ ChannelGet(channels, name).revision
             # ChannelGet(channels, <<name[1], next_risk(name[2])>>).revision

\* new_patch_in_edge
new_patch_in_edge(name, channels) ==
    /\ name[2] = "edge"
    /\ ChannelGet(channels, <<name[1], next_risk(name[2])>>).version
          # ChannelGet(channels, name).version

\* ignored_tracks = IGNORE_TRACKS + args.ignore_tracks; "track in ignored_tracks"
TrackIgnored(track, args) == track \in Range(IGNORE_TRACKS \o args.ignore_tracks)

\* a first stable release that is never needed
NeedsApproval_never(name, channels) == FALSE

\* the track has no stable release yet: approval by SolQA is needed
NeedsApproval(name, channels) ==
    next_risk(name[2]) = "stable" /\ <<name[1], "stable">> \notin DOMAIN channels

\* the channels of an architecture for which the loop of _create_arch_proposals
\* reaches the construction of a proposal
Proposed(arch, channels, args, now) ==
    {name \in DOMAIN channels :
        /\ next_risk(name[2]) # NoRisk
        /\ ~TrackIgnored(name[1], args)
        /\ arch \notin args.ignore_arches
        /\ purgatory_complete(name, channels, args, now) \/ new_patch_in_edge(name, channels)
        /\ ~NeedsApproval(name, channels)}

\* the proposal built for a channel (branch, runner labels and images, which
\* depend on the track and the architecture alone, are left out); from is the
\* channel the revision sits in
Proposal(arch, name, channels) ==
    [from |-> name,
     arch |-> arch,
     upgrade_channels |-> _build_upgrade_channels(name, channels),
     revision |-> channels[name].revision,
     snap_channel |-> <<name[1], next_risk(name[2])>>]

\* _create_arch_proposals(arch, channels, args): <<raised, proposals>>
_create_arch_proposals(arch, channels, args, now) ==
    LET todo == Proposed(arch, channels, args, now)
    IN IF \E name \in todo : InvalidTrack(name[1])
       THEN <<TRUE, {}>>
       ELSE <<FALSE, {Proposal(arch, name, channels) : name \in todo}>>

\* create_proposal(args): [raised, proposals]; an exception of one
\* architecture's loop leaves create_proposal
create_proposal(channel_map, args, now) ==
    LET per == [arch \in DOMAIN channel_map |->
                   _create_arch_proposals(arch, channel_map[arch], args, now)]
    IN IF \E arch \in DOMAIN per : per[arch][1]
       THEN [raised |-> TRUE, proposals |-> {}]
       ELSE [raised |-> FALSE,
             proposals |-> UNION {per[arch][2] : arch \in DOMAIN per}]

\* the "snapcraft release" of release_revision: the revision is stamped into
\* the channel of its architecture and one more call is on record
SnapcraftRelease(st, arch, revision, channel, now) ==
    [channel_map |->
        [st.channel_map EXCEPT ![arch] =
            [n \in (DOMAIN @) \cup {channel} |->
                IF n = channel THEN ChannelOf(revision, now) ELSE @[n]]],
     calls |-> st.calls + 1]

\* release_revision without the dry-run test
release_revision_always(st, arch, revision, channel, dry_run, now) ==
    SnapcraftRelease(st, arch, revision, channel, now)

\* release_revision(args) on the store st = [channel_map, calls]
release_revision(st, arch, revision, channel, dry_run, now) ==
    IF dry_run THEN st ELSE SnapcraftRelease(st, arch, revision, channel, now)

\* an entry of --ignore-tracks written as a regular expression
P_classic == <<"1", "\\.", "\\d+", "-classic">>

\* the argument vectors of "propose": the defaults, an ignore list with an
\* exact entry, one with a regular expression, an ignored architecture, and
\* other thresholds
DefaultArgs ==
    [days_in_edge_risk |-> DAYS_TO_STAY_IN_EDGE,
     days_in_beta_risk |-> DAYS_TO_STAY_IN_BETA,
     days_in_candidate_risk |-> DAYS_TO_STAY_IN_CANDIDATE,
     ignore_tracks |-> <<>>,
     ignore_arches |-> {}]

ProposeArgs ==
    {DefaultArgs,
     [DefaultArgs EXCEPT !.ignore_tracks = <<T_1_31_classic>>],
     [DefaultArgs EXCEPT !.ignore_tracks = <<P_classic>>],
     [DefaultArgs EXCEPT !.ignore_arches = {"arm64"}],
     [DefaultArgs EXCEPT !.days_in_edge_risk = 2, !.days_in_beta_risk = 2,
                         !.days_in_candidate_risk = 2]}

NoProposal == [raised |-> FALSE, proposals |-> {}]

\* no ensure_track call yet: the calls made, the create_track requests posted,
\* the last call's track, response and outcome, the store's tracks before it,
\* and the tracks whose call returned normally
NoEnsure ==
    [n |-> 0, posts |-> <<>>, track |-> <<>>, status |-> "none", raised |-> FALSE,
     before |-> {}, initial |-> {}, returned |-> {}]

\* nothing of promote_tracks has run: an empty store at time 1; at is the time
\* of the last "propose"
IdleSnap ==
    [channel_map |-> <<>>, calls |-> 0, now |-> 1, kind |-> "none", args |-> DefaultArgs,
     at |-> 1, out |-> NoProposal, before |-> <<>>, dry_run |-> FALSE, releasesLeft |-> 0,
     store_tracks |-> {}, ensure |-> NoEnsure]

SnapUnchanged == UNCHANGED snap

\* everything but the snap store and promote_tracks
SnapFrame ==
    UNCHANGED <<tracks, candidate, stable, pvs, addons, tpis, proc, env, ubundle, ustate,
                uout, gen>>

\* half a day passes
Tick ==
    /\ snap.now < MaxTime
    /\ snap' = [snap EXCEPT !.now = @ + 1]
    /\ SnapFrame

\* "promote_tracks.py propose": main, create_proposal
Propose ==
    /\ \E args \in ProposeArgs :
          snap' = [snap EXCEPT !.kind = "propose", !.args = args, !.at = snap.now,
                               !.out = create_proposal(snap.channel_map, args, snap.now),
                               !.before = <<>>, !.dry_run = FALSE]
    /\ SnapFrame

\* "promote_tracks.py promote --snap-revision R --snap-channel C [--dry-run]"
\* for a proposal of the last "propose"
ReleaseRevision ==
    /\ snap.kind = "propose"
    /\ snap.releasesLeft > 0
    /\ \E p \in snap.out.proposals, dry_run \in BOOLEAN :
          LET st == release_revision([channel_map |-> snap.channel_map, calls |-> snap.calls],
                                     p.arch, p.revision, p.snap_channel, dry_run, snap.now)
          IN snap' = [snap EXCEPT !.kind = "release", !.channel_map = st.channel_map,
                                  !.calls = st.calls, !.out = NoProposal,
                                  !.before = snap.channel_map, !.dry_run = dry_run,
                                  !.releasesLeft = @ - 1]
    /\ SnapFrame

-----------------------------------------------------------------------------
(* PriorityGenerator (util/sqa.py) under concurrent callers: each thread    *)
(* reads next_priority MaxCalls times; a read is "with self._lock:", the    *)
(* load and the store of "self.value += 1", and "return self.value".        *)

Threads == 1..NThreads

NoThread == 0

IdleThread == [pc |-> "start", tmp |-> 0, got |-> <<>>]

\* PriorityGenerator(initial)
NewPriorityGenerator(initial) ==
    [initial |-> initial, value |-> initial, lock |-> NoThread,
     th |-> [t \in Threads |-> IdleThread]]

IdleGen == NewPriorityGenerator(0)

\* everything but the generator and its threads
GenFrame ==
    UNCHANGED <<tracks, candidate, stable, pvs, addons, tpis, proc, env, ubundle, ustate,
                uout, snap>>

\* a lock that never blocks
LockIgnored(g) == TRUE

\* threading.Lock: acquire succeeds when nobody holds the lock
LockFree(g) == g.lock = NoThread

\* "with self._lock:" is entered
Acquire(t) ==
    /\ gen.th[t].pc = "start"
    /\ Len(gen.th[t].got) < MaxCalls
    /\ LockFree(gen)
    /\ gen' = [gen EXCEPT !.lock = t, !.th[t].pc = "load"]
    /\ GenFrame

\* self.value += 1: the value is read
Load(t) ==
    /\ gen.th[t].pc = "load"
    /\ gen' = [gen EXCEPT !.th[t].tmp = gen.value, !.th[t].pc = "store"]
    /\ GenFrame

\* self.value += 1: the sum is written
Store(t) ==
    /\ gen.th[t].pc = "store"
    /\ gen' = [gen EXCEPT !.value = next_priority(gen.th[t].tmp), !.th[t].pc = "return"]
    /\ GenFrame

\* return self.value
Return(t) ==
    /\ gen.th[t].pc = "return"
    /\ gen' = [gen EXCEPT !.th[t].got = Append(@, gen.value), !.th[t].pc = "exit"]
    /\ GenFrame

\* the with block is left: the lock is released
Release(t) ==
    /\ gen.th[t].pc = "exit"
    /\ gen' = [gen EXCEPT !.lock = IF @ = t THEN NoThread ELSE @, !.th[t].pc = "start"]
    /\ GenFrame

-----------------------------------------------------------------------------
(* Specifications *)

EmptyStore == [t \in AllTracks |-> [c \in Charms |-> EmptyMatrix]]

A22 == <<"amd64", "22.04">>
A24 == <<"amd64", "24.04">>
R22 == <<"arm64", "22.04">>

Released(cells) == [c \in cells |-> 1]

\* what the candidate channels of a track hold at the start, at revision 1:
\* nothing; one amd64 cell; two amd64 cells; an amd64 and an arm64 cell; a
\* charm without candidate; two charms of the same archs and bases where one
\* lacks a cell of the other
InitBundles ==
    {[c \in Charms |-> Released(cells[CharmRank(c)])] :
        cells \in {<<{}, {}>>, <<{A22}, {A22}>>, <<{A22, A24}, {A22, A24}>>,
                   <<{A22, R22}, {A22, R22}>>, <<{A22}, {}>>,
                   <<{A24, R22}, {A22, A24, R22}>>}}

InitEnv(publishes, faults) ==
    [publishLeft |-> publishes, faultsLeft |-> faults, changed |-> FALSE,
     dirty |-> AllDirty, prev |-> [t \in AllTracks |-> FALSE]]

InitRest ==
    /\ stable = EmptyStore
    /\ pvs = <<>>
    /\ addons = <<>>
    /\ tpis = <<>>
    /\ proc = [p \in Procs |-> IdleProc]
    /\ ubundle = IdleBundle
    /\ ustate = NewTrackState
    /\ uout = IdleOut
    /\ snap = IdleSnap
    /\ gen = IdleGen

\* one track, the script invoked again and again
Init ==
    /\ tracks = <<"1.32">>
    /\ \E ms \in InitBundles :
          candidate = [EmptyStore EXCEPT !["1.32"] = ms]
    /\ env = InitEnv(MaxPublish, 0)
    /\ InitRest

\* the same, with failing external calls and a store nobody releases to
InitFaults ==
    /\ tracks = <<"1.32">>
    /\ \E ms \in InitBundles :
          candidate = [EmptyStore EXCEPT !["1.32"] = ms]
    /\ env = InitEnv(0, MaxFaults)
    /\ InitRest

Script(p) ==
    \/ StartRun(p)
    \/ Fetch(p)
    \/ CheckTestable(p)
    \/ CellLookup(p)
    \/ CellStart(p)
    \/ Dispatch(p)
    \/ Promote(p)
    \/ Record(p)

Next ==
    \/ Script(1)
    \/ Publish
    \/ TestEnds

Spec == Init /\ [][Next]_vars

NextFaults ==
    \/ Script(1)
    \/ TestEnds

SpecFaults == InitFaults /\ [][NextFaults]_vars

\* one track, nobody releasing and no call failing, with tests that end in error
InitErrors ==
    /\ tracks = <<"1.32">>
    /\ \E ms \in InitBundles :
          candidate = [EmptyStore EXCEPT !["1.32"] = ms]
    /\ env = InitEnv(0, 0)
    /\ InitRest

NextErrors ==
    \/ Script(1)
    \/ TestEnds
    \/ TestErrors

SpecErrors == InitErrors /\ [][NextErrors]_vars

\* what the candidate channels of each of two tracks hold at the start
TrackBundles ==
    {[c \in Charms |-> Released(cells[CharmRank(c)])] : cells \in {<<{}, {}>>, <<{A22}, {A22}>>}}

\* two tracks in one run, with failing external calls
InitTracks ==
    /\ tracks = <<"1.32", "1.33">>
    /\ \E m1 \in TrackBundles, m2 \in TrackBundles :
          candidate = [t \in AllTracks |-> IF t = "1.32" THEN m1 ELSE m2]
    /\ env = InitEnv(0, MaxFaults)
    /\ InitRest

SpecTracks == InitTracks /\ [][NextFaults]_vars

\* what the candidate channels of each of two tracks hold when every track
\* has cells to test
RunBundles ==
    {[c \in Charms |-> Released(cells[CharmRank(c)])] :
        cells \in {<<{A22}, {A22}>>, <<{A22, A24}, {A22, A24}>>}}

\* two tracks in one run, no call failing
InitRun ==
    /\ tracks = <<"1.32", "1.33">>
    /\ \E m1 \in RunBundles, m2 \in RunBundles :
          candidate = [t \in AllTracks |-> IF t = "1.32" THEN m1 ELSE m2]
    /\ env = InitEnv(0, 0)
    /\ InitRest

SpecRun == InitRun /\ [][NextFaults]_vars

\* one track with at most one cell, the script invoked twice at once, no call
\* failing
InitRace ==
    /\ tracks = <<"1.32">>
    /\ \E ms \in TrackBundles :
          candidate = [EmptyStore EXCEPT !["1.32"] = ms]
    /\ env = InitEnv(0, 0)
    /\ InitRest

NextRace ==
    \/ Script(1)
    \/ Script(2)
    \/ TestEnds

SpecRace == InitRace /\ [][NextRace]_vars

InitPure ==
    /\ tracks = <<"1.32">>
    /\ candidate = EmptyStore
    /\ env = InitEnv(0, 0)
    /\ InitRest

NextBundle == USet \/ UIsTestable

SpecBundle == InitPure /\ [][NextBundle]_vars

NextAgg == USetState \/ UDispatch

SpecAgg == InitPure /\ [][NextAgg]_vars

InitStatus ==
    /\ tracks = <<"1.32">>
    /\ candidate = EmptyStore
    /\ stable = EmptyStore
    /\ env = InitEnv(0, 0)
    /\ pvs = UProductVersions
    /\ addons = <<[name |-> UVersion, variables |-> <<>>]>>
    /\ tpis = <<>>
    /\ proc = [p \in Procs |-> IdleProc]
    /\ ubundle = IdleBundle
    /\ ustate = NewTrackState
    /\ uout = IdleOut
    /\ snap = IdleSnap
    /\ gen = IdleGen

NextStatus == UAddTpi \/ UStatus

SpecStatus == InitStatus /\ [][NextStatus]_vars

\* the channels of one architecture from entries <<track, risk, revision, released_at>>
ChannelsOf(entries) ==
    [name \in {<<e[1], e[2]>> : e \in entries} |->
        LET e == CHOOSE x \in entries : <<x[1], x[2]>> = name
        IN ChannelOf(e[3], e[4])]

\* the entries of a track holding revs[i] at RISK_LEVELS[i] (None: no channel)
Fill(track, revs, at) ==
    {<<track, RISK_LEVELS[i], revs[i], at>> : i \in {j \in 1..Len(RISK_LEVELS) : revs[j] # None}}

\* the channel maps at the start: track 1.32 on amd64 in every combination of
\* an absent, older or newer revision per risk; then maps with a prior track,
\* with the tracks latest, 1.31-classic, 1.32-classic and v1.32, with a second
\* architecture, and with a channel whose release date is unknown
InitMaps ==
    {[amd64 |-> ChannelsOf(Fill(T_1_32, <<e, b, c, s>>, 1))] :
        e \in {None, 2, 3}, b \in {None, 1, 2}, c \in {None, 1, 2}, s \in {None, 1}}
    \cup
    {[amd64 |-> ChannelsOf(Fill(T_1_32, <<3, 2, 2, 1>>, 1) \cup Fill(T_1_31, <<None, None, 1, 2>>, 1))],
     [amd64 |-> ChannelsOf(Fill(T_1_32, <<2, 1, None, None>>, 1) \cup Fill(T_1_31, <<None, 2, None, None>>, 1))],
     [amd64 |-> ChannelsOf(Fill(T_latest, <<1, None, None, None>>, 1) \cup Fill(T_1_32, <<2, 1, None, None>>, 1))],
     [amd64 |-> ChannelsOf(Fill(T_1_31_classic, <<1, None, None, None>>, 1) \cup Fill(T_1_32, <<3, 1, None, None>>, 1))],
     [amd64 |-> ChannelsOf(Fill(T_1_32_classic, <<2, 1, None, None>>, 1)
                           \cup Fill(T_1_31_classic, <<None, None, None, 1>>, 1)
                           \cup Fill(T_1_31, <<None, None, None, 3>>, 1))],
     [amd64 |-> ChannelsOf(Fill(T_malformed, <<1, None, None, None>>, 1) \cup Fill(T_1_32, <<3, 1, None, None>>, 1))],
     [amd64 |-> ChannelsOf(Fill(T_malformed, <<1, 1, None, None>>, 1) \cup Fill(T_1_32, <<3, 1, None, None>>, 1))],
     [amd64 |-> ChannelsOf(Fill(T_1_32, <<2, 1, None, None>>, 1)),
      arm64 |-> ChannelsOf(Fill(T_1_32, <<3, 1, None, None>>, 1) \cup Fill(T_1_31, <<None, None, None, 1>>, 1))],
     [amd64 |-> ChannelsOf(Fill(T_1_32, <<3, 1, None, None>>, 1)),
      arm64 |-> ChannelsOf(Fill(T_malformed, <<1, None, None, None>>, 1))],
     [amd64 |-> ChannelsOf(Fill(T_1_32, <<2, None, None, None>>, None) \cup Fill(T_1_32, <<None, 1, None, None>>, 1))]}

\* the charm release script and the platforms it talks to, at rest
InitCharmIdle ==
    /\ tracks = <<"1.32">>
    /\ candidate = EmptyStore
    /\ stable = EmptyStore
    /\ env = InitEnv(0, 0)
    /\ pvs = <<>>
    /\ addons = <<>>
    /\ tpis = <<>>
    /\ proc = [p \in Procs |-> IdleProc]
    /\ ubundle = IdleBundle
    /\ ustate = NewTrackState
    /\ uout = IdleOut

\* the snap store as found, promote_tracks run again and again as time passes
InitSnap ==
    /\ InitCharmIdle
    /\ gen = IdleGen
    /\ \E m \in InitMaps :
          snap = [IdleSnap EXCEPT !.channel_map = m, !.releasesLeft = MaxReleases]

NextSnap ==
    \/ Tick
    \/ Propose
    \/ ReleaseRevision

SpecSnap == InitSnap /\ [][NextSnap]_vars

\* a generator made with an initial value, read by the threads
InitPriority ==
    /\ InitCharmIdle
    /\ snap = IdleSnap
    /\ \E initial \in 0..1 : gen = NewPriorityGenerator(initial)

NextPriority ==
    \E t \in Threads :
        \/ Acquire(t)
        \/ Load(t)
        \/ Store(t)
        \/ Return(t)
        \/ Release(t)

SpecPriority == InitPriority /\ [][NextPriority]_vars

\* the release script on one track and promote_tracks on a snap store whose
\* edge revision has dwelt a day, each run with or without --dry-run
InitDry ==
    /\ tracks = <<"1.32">>
    /\ \E ms \in InitBundles :
          candidate = [EmptyStore EXCEPT !["1.32"] = ms]
    /\ env = InitEnv(0, 0)
    /\ stable = EmptyStore
    /\ pvs = <<>>
    /\ addons = <<>>
    /\ tpis = <<>>
    /\ proc = [p \in Procs |-> IdleProc]
    /\ ubundle = IdleBundle
    /\ ustate = NewTrackState
    /\ uout = IdleOut
    /\ gen = IdleGen
    /\ snap = [IdleSnap EXCEPT
                  !.channel_map = [amd64 |-> ChannelsOf(Fill(T_1_32, <<2, 1, None, None>>, 1))],
                  !.now = 3, !.releasesLeft = MaxReleases]

NextDry ==
    \/ Script(1)
    \/ TestEnds
    \/ Propose
    \/ ReleaseRevision

SpecDry == InitDry /\ [][NextDry]_vars

-----------------------------------------------------------------------------
(* Properties *)

Running(p) == proc[p].pc \in {"testable", "cells", "start", "promote", "record"}

Statuses(ts) == {ts[v] : v \in DOMAIN ts}

\* the states ensure_track_state recorded for the cells it checked in this run
CellStates(pr) == {pr.verdict[c] : c \in DOMAIN pr.verdict}

\* C1: promote_charm is issued only when the run has checked at least one cell,
\* every cell it checked was classified PASSED and dry_run is false; a run that
\* then returns PROCESS_SUCCESS has promoted every charm of the bundle list, in
\* list order, from <track>/candidate to <track>/stable.  In every other case
\* no charm is promoted.
C1_PromoteOnlyOnSuccess ==
    \A p \in Procs :
        LET pr == proc[p]
        IN /\ (pr.pc = "promote" \/ pr.promoted # <<>>) =>
                /\ pr.todo = {}
                /\ CellStates(pr) = {PASSED}
                /\ ~pr.dry_run
                /\ \A i \in 1..Len(pr.promoted) : pr.promoted[i] = BundleCharms[i]
                /\ \A c \in Range(pr.promoted) :
                      stable[Track(p)][c] = candidate[Track(p)][c]
           /\ (pr.pc = "record" /\ pr.result = PROCESS_SUCCESS /\ ~pr.dry_run) =>
                pr.promoted = BundleCharms

\* C2: a cell is classified PASSED only on a passed test plan instance that
\* was created for the cell's own fingerprint (the version naming every
\* component's revision), never on one created for another revision set.
C2_FullFingerprint ==
    \A p \in Procs :
        Running(p) =>
            \A v \in DOMAIN proc[p].track_state :
                proc[p].track_state[v] = PASSED =>
                    \E i \in 1..Len(tpis) :
                        tpis[i].status = PASSED /\ addons[tpis[i].addon].name = v

\* the test plan instances started for a cell: its channel, its series, its version
CellTpis(channel, base, version) ==
    {i \in 1..Len(tpis) :
        /\ pvs[tpis[i].pv].channel = channel
        /\ pvs[tpis[i].pv].series = get_series(base)
        /\ addons[tpis[i].addon].name = version}

\* C3: as long as nothing but the script itself has acted on the store and the
\* test platform, no cell ever has two test plan instances: a run (dry_run
\* false) that finds none starts exactly one per cell, and every later run
\* finds it and starts none.
C3_NoDuplicateTestRun ==
    ~env.changed =>
        /\ \A i, j \in 1..Len(tpis) :
              (/\ pvs[tpis[i].pv].channel = pvs[tpis[j].pv].channel
               /\ pvs[tpis[i].pv].series = pvs[tpis[j].pv].series
               /\ addons[tpis[i].addon].name = addons[tpis[j].addon].name) => i = j
        /\ \A p \in Procs :
              (proc[p].pc = "record" /\ ~proc[p].dry_run /\ proc[p].branch = "in_progress") =>
                  \A cell \in proc[p].looked :
                      Cardinality(CellTpis(Channel(p), cell[2],
                          Bundle_get_version(proc[p].bundle, cell[1], cell[2]))) = 1

C3_Witness ==
    /\ ~env.changed
    /\ Len(tpis) > 0
    /\ \E p \in Procs :
          /\ proc[p].pc = "record"
          /\ ~proc[p].dry_run
          /\ proc[p].looked # {}
          /\ proc[p].started = {}

UStatuses ==
    {tpis[i].status : i \in {j \in 1..Len(tpis) :
        pvs[tpis[j].pv] = [channel |-> UChannel, revision |-> "1", series |-> "jammy"]}}

\* C5: current_test_plan_instance_status returns PASSED when an instance of
\* the cell passed, whatever the others; else IN_PROGRESS when one is in
\* progress; else FAILED when one failed; None only otherwise.
C5_Precedence ==
    uout.kind = "status" =>
        uout.value = IF PASSED \in UStatuses THEN PASSED
                     ELSE IF IN_PROGRESS \in UStatuses THEN IN_PROGRESS
                     ELSE IF FAILED \in UStatuses THEN FAILED
                     ELSE NoStatus

C5_Witness ==
    /\ uout.kind = "status"
    /\ ERROR \in UStatuses
    /\ IN_PROGRESS \in UStatuses
    /\ uout.value = IN_PROGRESS

\* the statuses of the instances the lookup of a cell can find
LookupStatuses(channel, base, version) ==
    {tpis[i].status : i \in {j \in 1..Len(tpis) :
        /\ pvs[tpis[j].pv].channel = channel
        /\ pvs[tpis[j].pv].series = get_series(base)
        /\ pvs[tpis[j].pv].revision = K8sRevision(version)}}

\* C6: a cell with at least one instance, none passed, none in progress, all
\* failed or in error, is classified FAILED and no new instance is started
\* for it.
C6_ErrorOnlyIsFailed ==
    \A p \in Procs :
        LET pr == proc[p]
            version == Bundle_get_version(pr.bundle, pr.cur[1], pr.cur[2])
            found == LookupStatuses(Channel(p), pr.cur[2], version)
        IN (pr.pc \in {"cells", "start", "record"} /\ pr.cur # <<>>
                /\ found # {} /\ found \subseteq {FAILED, ERROR}) =>
              /\ pr.pc # "start"
              /\ version \in DOMAIN pr.track_state
              /\ pr.track_state[version] = FAILED

\* the branches of the dispatch of process_track over the aggregated state
Branches == {"empty", "succeeded", "in_progress", "failed", "unknown"}

\* C7: when process_track returns from its dispatch, over the states of the
\* cells it checked: PROCESS_FAILED if any cell failed, whatever the others;
\* PROCESS_SUCCESS only if there is a cell and all cells passed;
\* PROCESS_IN_PROGRESS only if none failed and one is in progress;
\* PROCESS_CI_FAILED when no cell was checked or the cells are unclassifiable.
C7_FailureDominates ==
    \A p \in Procs :
        LET pr == proc[p]
            sts == CellStates(pr)
        IN (pr.pc = "record" /\ pr.branch \in Branches) =>
              /\ FAILED \in sts => pr.result = PROCESS_FAILED
              /\ pr.result = PROCESS_SUCCESS => sts = {PASSED}
              /\ pr.result = PROCESS_IN_PROGRESS => (FAILED \notin sts /\ IN_PROGRESS \in sts)
              /\ (sts = {} \/ (FAILED \notin sts /\ IN_PROGRESS \notin sts /\ sts # {PASSED}))
                    => pr.result = PROCESS_CI_FAILED

\* C8: a bundle that is not testable ends the track with PROCESS_CI_FAILED,
\* without test lookup, test start or promotion.
C8_NotTestableIsCiFailure ==
    \A p \in Procs :
        (proc[p].pc = "record" /\ proc[p].branch = "not testable") =>
            /\ proc[p].result = PROCESS_CI_FAILED
            /\ proc[p].looked = {}
            /\ proc[p].started = {}
            /\ proc[p].promoted = <<>>

\* C9: whatever external call fails while a track is processed, process_track
\* returns PROCESS_CI_FAILED for that track and main goes on with the
\* remaining tracks (no exception leaves main).
C9_TrackIsolation ==
    \A p \in Procs :
        /\ proc[p].pc # "crashed"
        /\ (proc[p].pc = "record" /\ proc[p].faulted) => proc[p].result = PROCESS_CI_FAILED

\* the cells at which a matrix has a revision
Covered(m) == {k \in DOMAIN m : Truthy(m[k])}

\* every cell set on the bundle's matrices holds a revision, as in the
\* matrices get_revision_matrix builds
NoNullCell(b) ==
    \A c \in BundleKeys(b) : \A k \in DOMAIN Mat(b, c) : Truthy(Mat(b, c)[k])

\* C10: is_testable gives the same result whichever matrix is the reference,
\* and is true only if all matrices have revisions at exactly the same cells
\* (stated for bundles whose matrices hold no null revision).
C10_ReferenceIndependent ==
    (uout.kind = "is_testable" /\ NoNullCell(ubundle)) =>
        /\ \A ref \in Refs(ubundle) : is_testable(ubundle, ref) = uout.value
        /\ uout.value =>
              \A c, d \in BundleKeys(ubundle) :
                  Covered(Mat(ubundle, c)) = Covered(Mat(ubundle, d))

-----------------------------------------------------------------------------
(* The proposals of promote_tracks *)

\* "propose" has run and returned its proposals
ProposeReturned == snap.kind = "propose" /\ ~snap.out.raised

\* the cells of the channel map: <<arch, channel name>>
SnapCells ==
    {<<arch, name>> : arch \in DOMAIN snap.channel_map, name \in AllChannelNames} \cap
    {c \in (DOMAIN snap.channel_map) \X AllChannelNames : c[2] \in DOMAIN snap.channel_map[c[1]]}

\* the revision a channel of an architecture holds, None if there is no such channel
RevisionAt(arch, name) ==
    IF name \in DOMAIN snap.channel_map[arch] THEN snap.channel_map[arch][name].revision
    ELSE None

\* the version a channel of an architecture holds
VersionAt(arch, name) ==
    IF name \in DOMAIN snap.channel_map[arch] THEN snap.channel_map[arch][name].version
    ELSE NoSnapVersion

NextChannel(name) == <<name[1], next_risk(name[2])>>

\* the proposals of the last run for a cell
ProposalsOf(cell) == {p \in snap.out.proposals : p.arch = cell[1] /\ p.from = cell[2]}

PatternMatches(pattern, track) ==
    /\ Len(pattern) = Len(track)
    /\ \A i \in 1..Len(pattern) :
          CASE pattern[i] = "\\." -> track[i] = "."
            [] pattern[i] = "\\d+" -> track[i] \in DigitRuns
            [] OTHER -> pattern[i] = track[i]

\* the track is on the ignore list of the run, exactly or as a regular
\* expression, or is the reserved track latest
OnIgnoreList(track) ==
    \/ track = T_latest
    \/ \E i \in 1..Len(snap.args.ignore_tracks) :
          \/ snap.args.ignore_tracks[i] = track
          \/ PatternMatches(snap.args.ignore_tracks[i], track)

\* a cell of a track and an architecture the run does not ignore
NonIgnored(cell) == ~OnIgnoreList(cell[2][1]) /\ cell[1] \notin snap.args.ignore_arches

\* released_at is known, the whole days since are at least the threshold of the
\* risk, and the revision differs from the one at the next risk
DwellComplete(cell) ==
    LET at == snap.channel_map[cell[1]][cell[2]].released_at
    IN /\ at # None
       /\ (snap.at - at) \div 2 >= DaysToStay(snap.args, cell[2][2])
       /\ RevisionAt(cell[1], cell[2]) # RevisionAt(cell[1], NextChannel(cell[2]))

\* the cell is at edge and the next risk holds another version (or none)
NewPatchSupersedes(cell) ==
    /\ cell[2][2] = "edge"
    /\ VersionAt(cell[1], NextChannel(cell[2])) # VersionAt(cell[1], cell[2])

\* the target is stable and the track has no stable entry: manual approval
FirstStable(cell) ==
    cell[2][2] = "candidate" /\ <<cell[2][1], "stable">> \notin DOMAIN snap.channel_map[cell[1]]

\* C12: for a cell that is not ignored, at a risk other than stable, a proposal
\* is emitted exactly when the dwell is complete or a new patch supersedes
\* (first stable releases apart, which are never proposed); when neither
\* holds no proposal is emitted
C12_Eligibility ==
    ProposeReturned =>
        \A cell \in SnapCells :
            (cell[2][2] # "stable" /\ NonIgnored(cell)) =>
                (ProposalsOf(cell) # {}
                    <=> /\ DwellComplete(cell) \/ NewPatchSupersedes(cell)
                        /\ ~FirstStable(cell))

\* a beta revision proposed on the day its three days are over, and not on
\* the half day before
C12_Witness ==
    /\ ProposeReturned
    /\ snap.args = DefaultArgs
    /\ \E cell \in SnapCells :
          /\ cell[2][2] = "beta"
          /\ ProposalsOf(cell) # {}
          /\ snap.at - snap.channel_map[cell[1]][cell[2]].released_at = 2 * DAYS_TO_STAY_IN_BETA

\* the track major.(minor-1) with the same trailing qualifier
TrackBefore(track) == [track EXCEPT ![3] = NumStr(StrNum(@) - 1)]

\* the highest risk above the given one at which the track has a channel
HighestExisting(arch, track, above) ==
    LET present == {i \in 1..Len(RISK_LEVELS) :
                       i > above /\ <<track, RISK_LEVELS[i]>> \in DOMAIN snap.channel_map[arch]}
    IN {<<track, RISK_LEVELS[i]>> : i \in {j \in present : \A k \in present : k <= j}}

\* the sources of the upgrade tests of a proposal
ExpectedSources(p) ==
    ({p.snap_channel} \cap DOMAIN snap.channel_map[p.arch])
    \cup HighestExisting(p.arch, p.from[1], RiskIndex(p.snap_channel[2]))
    \cup HighestExisting(p.arch, TrackBefore(p.from[1]), 0)

C14_IgnoredTracksNeverProposed ==
    ProposeReturned =>
        /\ \A p \in snap.out.proposals : ~OnIgnoreList(p.from[1])
        /\ \A cell \in SnapCells :
              (/\ cell[2][2] # "stable"
               /\ NonIgnored(cell)
               /\ DwellComplete(cell) \/ NewPatchSupersedes(cell)
               /\ ~FirstStable(cell)) => ProposalsOf(cell) # {}

\* a well-formed track name: major.minor[qualifier]
WellFormed(track) ==
    Len(track) >= 3 /\ track[1] \in DigitRuns /\ track[2] = "." /\ track[3] \in DigitRuns

\* C15: a malformed track name fails its own cell only: create_proposal does
\* not raise, and returns the proposal of every eligible cell of a well-formed
\* track
C15_MalformedTrackIsLocal ==
    snap.kind = "propose" =>
        /\ ~snap.out.raised
        /\ \A cell \in SnapCells :
              (/\ cell[2][2] # "stable"
               /\ WellFormed(cell[2][1])
               /\ NonIgnored(cell)
               /\ DwellComplete(cell) \/ NewPatchSupersedes(cell)
               /\ ~FirstStable(cell)) => ProposalsOf(cell) # {}

-----------------------------------------------------------------------------
(* Dry runs *)

\* a step of an invocation of the release script that runs with --dry-run
DryStep(p) ==
    /\ proc[p].dry_run
    /\ proc[p].pc \notin {"idle", "done", "crashed"}
    /\ proc'[p] # proc[p]

\* C16: a step of a dry run of the release script calls neither
\* start_release_test nor promote_charm and leaves the store and the test
\* platform as they are; release_revision with dry-run runs no "snapcraft
\* release" and leaves the channel map as it is
C16_DryRunMutatesNothing ==
    [][/\ \A p \in Procs :
             DryStep(p) =>
                 /\ UNCHANGED <<candidate, stable, pvs, addons, tpis>>
                 /\ proc'[p].started = {}
                 /\ proc'[p].promoted = <<>>
       /\ (snap.kind = "propose" /\ snap'.kind = "release" /\ snap'.dry_run) =>
             /\ snap'.channel_map = snap.channel_map
             /\ snap'.calls = snap.calls]_vars

\* a dry run of the release script that found no test plan instance for a
\* cell and reports the track in progress, and a dry "promote" of a proposal
C16_Witness ==
    /\ snap.kind = "release"
    /\ snap.dry_run
    /\ tpis = <<>>
    /\ \E p \in Procs :
          /\ proc[p].pc = "record"
          /\ proc[p].dry_run
          /\ proc[p].looked # {}
          /\ proc[p].branch = "in_progress"

-----------------------------------------------------------------------------
(* Priorities *)

\* C17: within a run, the priority given to a newly created test plan
\* instance is the one drawn last, is strictly greater than every priority the
\* run's generator issued before, and is strictly greater than the priority of
\* every instance the run created earlier, whatever the cell or the track
C17_PrioritiesIncrease ==
    \A p \in Procs :
        LET made == proc[p].created
        IN /\ \A k \in 1..Len(made) :
                 /\ Len(made[k].issued) > 0
                 /\ made[k].priority = made[k].issued[Len(made[k].issued)]
                 /\ \A i \in 1..(Len(made[k].issued) - 1) : made[k].issued[i] < made[k].priority
           /\ \A j, k \in 1..Len(made) : j < k => made[j].priority < made[k].priority

\* a run that created instances for cells of two tracks, three in all
C17_Witness ==
    \E p \in Procs :
        /\ proc[p].ti = 2
        /\ Len(proc[p].created) = 3
        /\ proc[p].started # {}

\* the values the threads have been given so far, as a bag
Returned ==
    LET all == UNION {{<<t, i>> : i \in 1..Len(gen.th[t].got)} : t \in Threads}
    IN [v \in {gen.th[c[1]].got[c[2]] : c \in all} |->
           Cardinality({c \in all : gen.th[c[1]].got[c[2]] = v})]

\* the number of reads that have returned
Reads == Cardinality(UNION {{<<t, i>> : i \in 1..Len(gen.th[t].got)} : t \in Threads})

\* C18: under every interleaving of threads reading next_priority on one
\* generator, the values returned so far are pairwise distinct and are exactly
\* initial+1 .. initial+n for the n reads that have returned, and the values
\* of each thread are strictly increasing
C18_ThreadSafe ==
    /\ \A v \in DOMAIN Returned : Returned[v] = 1
    /\ DOMAIN Returned = (gen.initial + 1)..(gen.initial + Reads)
    /\ \A t \in Threads :
          \A i, j \in 1..Len(gen.th[t].got) : i < j => gen.th[t].got[i] < gen.th[t].got[j]

\* every thread has made all its reads, and the threads took turns
C18_Witness ==
    /\ \A t \in Threads : Len(gen.th[t].got) = MaxCalls /\ gen.th[t].pc = "start"
    /\ \E t \in Threads : gen.th[t].got[1] + 1 # gen.th[t].got[2]

-----------------------------------------------------------------------------
(* Concurrent invocations *)

\* the invocations that, in their current track, found no test plan instance
\* for the cell and called start_release_test for it
Starters(cell) == {p \in Procs : cell \in proc[p].started}

\* the test plan instances of a cell of the only track, as an invocation
\* that has the cell in its bundle names it
InstancesOf(cell, p) ==
    CellTpis(Channel(p), cell[2], Bundle_get_version(proc[p].bundle, cell[1], cell[2]))

\* C19: nothing keeps a second invocation from creating a second instance:
\* every invocation that observed no test plan instance for a cell and went on
\* to start one has created its own, so a cell has at least as many instances
\* as invocations that started it (two when two invocations race)
C19_NothingExcludesRace ==
    \A cell \in StoreCells :
        \A p \in Starters(cell) :
            Cardinality(InstancesOf(cell, p)) >= Cardinality(Starters(cell))

\* both invocations observed no instance for the same cell, both created one:
\* two instances for one fingerprint
C19_Witness ==
    \E cell \in StoreCells :
        /\ Starters(cell) = {1, 2}
        /\ Cardinality(InstancesOf(cell, 1)) = 2
        /\ InstancesOf(cell, 1) = InstancesOf(cell, 2)

-----------------------------------------------------------------------------
(* A fresh track *)

\* the track of an invocation has a charm whose candidate matrix differs from
\* its stable matrix
CandidateDiffers(p) ==
    \E charm \in Charms : candidate[Track(p)][charm] # stable[Track(p)][charm]

\* the test platform held no test plan instance when the run began: all it
\* holds were created by the run
NoInstanceBefore(p) == Len(tpis) = Len(proc[p].created)

\* the amd64 cells at which every charm of the bundle has a candidate revision
CompleteCells(p) ==
    {cell \in StoreCells :
        /\ cell[1] = "amd64"
        /\ \A charm \in Charms :
              /\ cell \in DOMAIN candidate[Track(p)][charm]
              /\ candidate[Track(p)][charm][cell] # None}

\* the candidate matrices of all charms hold revisions at the same cells
SameCells(p) ==
    \A c, d \in Charms : Covered(candidate[Track(p)][c]) = Covered(candidate[Track(p)][d])

\* the fingerprint of a cell: the bundle name, then -<charm>-<revision> in
\* the order of the sorted charm names
Fingerprint(p, cell) ==
    BundleName
    \o CharmTokens("k8s") \o <<RevStr(candidate[Track(p)]["k8s"][cell])>>
    \o CharmTokens("k8s-worker") \o <<RevStr(candidate[Track(p)]["k8s-worker"][cell])>>

\* the calls of start_release_test of the run made with a cell's channel,
\* base, arch, revision mapping and fingerprint
FreshCalls(p, cell) ==
    {i \in 1..Len(proc[p].calls) :
        /\ proc[p].calls[i].channel = <<Track(p), CANDIDATE>>
        /\ proc[p].calls[i].base = cell[2]
        /\ proc[p].calls[i].arch = cell[1]
        /\ proc[p].calls[i].revisions = [c \in Charms |-> candidate[Track(p)][c][cell]]
        /\ proc[p].calls[i].version = Fingerprint(p, cell)}

\* start_release_test was called once per complete amd64 cell with the cell's
\* data, the first with priority 1; nothing was promoted; the track is
\* reported in progress
FreshOutcome(p) ==
    /\ proc[p].started = CompleteCells(p)
    /\ Len(proc[p].calls) = Cardinality(CompleteCells(p))
    /\ \A cell \in CompleteCells(p) : Cardinality(FreshCalls(p, cell)) = 1
    /\ Len(proc[p].calls) > 0 => proc[p].calls[1].priority = 1
    /\ proc[p].promoted = <<>>
    /\ stable[Track(p)] = EmptyStore[Track(p)]
    /\ proc[p].result = PROCESS_IN_PROGRESS

\* a run (dry_run false) has finished a track whose candidate differed from
\* stable, on a platform without test plan instances
FreshTrackDone(p) ==
    /\ proc[p].pc = "record"
    /\ ~proc[p].dry_run
    /\ CandidateDiffers(p)
    /\ NoInstanceBefore(p)

-----------------------------------------------------------------------------
(* Nothing pending *)

\* every charm of the bundle has no candidate revisions, or a candidate matrix
\* equal to its stable matrix
NothingPending(p) ==
    \A charm \in Charms :
        \/ candidate[Track(p)][charm] = EmptyMatrix
        \/ candidate[Track(p)][charm] = stable[Track(p)][charm]

\* the run is past the store queries of its track and has changed nothing in
\* the store since
AfterFetch(p) ==
    /\ proc[p].pc \notin {"idle", "fetch", "done"}
    /\ ~proc[p].faulted
    /\ proc[p].promoted = <<>>

\* C21: when every charm of the bundle has no candidate revisions or a
\* candidate matrix equal to its stable matrix, process_track reports the
\* track unchanged and does nothing: no lookup on the test platform, no
\* start_release_test, no promote_charm, no priority drawn
C21_NothingPendingNoAction ==
    \A p \in Procs :
        (AfterFetch(p) /\ NothingPending(p)) =>
            /\ proc[p].pc \in {"testable", "record"}
            /\ proc[p].pc = "record" => proc[p].result = PROCESS_UNCHANGED
            /\ proc[p].looked = {}
            /\ proc[p].started = {}
            /\ proc[p].calls = <<>>
            /\ proc[p].issued = <<>>
            /\ proc[p].priority = 0

\* a track whose candidate revisions are all in stable already has been
\* processed
C21_Witness ==
    \E p \in Procs :
        /\ AfterFetch(p)
        /\ proc[p].pc = "record"
        /\ NothingPending(p)
        /\ \E charm \in Charms : candidate[Track(p)][charm] # EmptyMatrix
        /\ proc[p].branch = "nothing pending"

-----------------------------------------------------------------------------
(* Bundle.get_version *)

\* the cells the bundles of SpecVersion hold revisions at
VersionCells == {A22, A24}

VersionMatrices == UNION {[D -> Revs \cup {None}] : D \in SUBSET VersionCells}

\* Bundle.set(charm, revision_matrix), with a matrix over VersionCells
USetVersioned ==
    /\ uout.n < MaxSets
    /\ \E charm \in Charms, m \in VersionMatrices :
          ubundle' = Bundle_set(ubundle, charm, <<m>>)
    /\ uout' = [n |-> uout.n + 1, kind |-> "set", value |-> FALSE]
    /\ UNCHANGED <<snap, gen, tracks, candidate, stable, pvs, addons, tpis, proc, env, ustate>>

\* Bundle.get_version(arch, base)
UGetVersion ==
    /\ uout.kind = "set"
    /\ \E cell \in StoreCells :
          uout' = [n |-> uout.n, kind |-> "get_version", cell |-> cell,
                   value |-> Bundle_get_version(ubundle, cell[1], cell[2])]
    /\ UNCHANGED <<snap, gen, tracks, candidate, stable, pvs, addons, tpis, proc, env, ubundle, ustate>>

NextVersion == USetVersioned \/ UGetVersion

SpecVersion == InitPure /\ [][NextVersion]_vars

\* the bundle with the components of b, set() in the given order
RECURSIVE Rebuilt(_, _)
Rebuilt(b, order) ==
    IF order = <<>> THEN NewBundle(b.name)
    ELSE LET n == Len(order)
         IN Bundle_set(Rebuilt(b, SubSeq(order, 1, n - 1)), order[n], b.data[order[n]])

\* the orders the components of b can be set() in
Orders(b) ==
    {o \in [1..Len(b.keys) -> BundleKeys(b)] : Range(o) = BundleKeys(b)}

\* the bundles with the components of b, whatever their revisions
SameComponents(b) ==
    {[b EXCEPT !.data = d] :
        d \in [BundleKeys(b) -> {<<m>> : m \in VersionMatrices}]}

ComponentRevision(b, c, cell) == RM_get(Mat(b, c), cell[1], cell[2])

\* C22: get_version(arch, base) is a deterministic fingerprint: it is the same
\* whatever the order the components were set() in; two bundles with the same
\* components yield different version strings at a cell exactly when some
\* component's revision at that cell differs; and it is None when any
\* component lacks a revision at that cell
C22_VersionIsFingerprint ==
    uout.kind = "get_version" =>
        LET cell == uout.cell
            v == uout.value
        IN /\ \A o \in Orders(ubundle) :
                 /\ Rebuilt(ubundle, o).keys = o
                 /\ Bundle_get_version(Rebuilt(ubundle, o), cell[1], cell[2]) = v
           /\ \A b2 \in SameComponents(ubundle) :
                 LET v2 == Bundle_get_version(b2, cell[1], cell[2])
                 IN (v # NoVersion /\ v2 # NoVersion) =>
                       ((v # v2) <=>
                           \E c \in BundleKeys(ubundle) :
                               ComponentRevision(b2, c, cell) # ComponentRevision(ubundle, c, cell))
           /\ (\E c \in BundleKeys(ubundle) : ~Truthy(ComponentRevision(ubundle, c, cell)))
                 => v = NoVersion

\* both components were set, the worker first, and the version of a cell where
\* both have a revision was asked for
C22_Witness ==
    /\ uout.kind = "get_version"
    /\ ubundle.keys = <<"k8s-worker", "k8s">>
    /\ uout.cell = A24
    /\ uout.value = BundleName \o <<"k8s", "2", "k8s", "worker", "1">>

\* a component lacks a revision at the cell asked for
C22_WitnessNull ==
    /\ uout.kind = "get_version"
    /\ Len(ubundle.keys) = 2
    /\ \E c \in BundleKeys(ubundle) : ~Truthy(ComponentRevision(ubundle, c, uout.cell))
    /\ \E c \in BundleKeys(ubundle) : Truthy(ComponentRevision(ubundle, c, uout.cell))

-----------------------------------------------------------------------------
(* TrackState aggregation *)

\* the properties of TrackState that hold of ts
Verdicts(ts) ==
    {n \in {"empty", "failed", "succeeded", "in_progress"} :
        CASE n = "empty" -> TS_empty(ts)
          [] n = "failed" -> TS_failed(ts)
          [] n = "succeeded" -> TS_succeeded(ts)
          [] OTHER -> TS_in_progress(ts)}

\* C23: whatever set_state calls built the TrackState, with whatever statuses,
\* at most one of empty, failed, succeeded and in_progress is true of it, and
\* in_progress is false whenever failed is true
C23_AtMostOneVerdict ==
    /\ Cardinality(Verdicts(ustate)) <= 1
    /\ TS_failed(ustate) => ~TS_in_progress(ustate)

\* a state with a failed cell and a cell in progress: failed only
C23_FailedWins ==
    /\ \E v \in DOMAIN ustate : ustate[v] = FAILED
    /\ \E v \in DOMAIN ustate : ustate[v] = IN_PROGRESS
    /\ Verdicts(ustate) = {"failed"}

\* a non-empty state that is none of failed, succeeded, in_progress
C23_Witness ==
    /\ ~TS_empty(ustate)
    /\ Verdicts(ustate) = {}
    /\ uout.kind = "dispatch"

-----------------------------------------------------------------------------
(* The final report *)

\* C24: when a run is over, results holds a verdict for every track the run
\* processed, whatever the outcome of the track: no track is missing
C24_EveryTrackReported ==
    \A p \in Procs :
        proc[p].pc = "done" => DOMAIN proc[p].results = Range(tracks)

-----------------------------------------------------------------------------
(* snapstore.ensure_track *)

MaxEnsure == 3

\* the tracks ensure_snap_channels asks for
EnsureTracks == {T_1_32, T_1_32_classic, T_latest}

HTTP_OK == "200"
HTTP_CONFLICT == "409"
\* the requests that fail for a reason of their own: bad credentials, a server
\* error, no connection (requests.ConnectionError, not an HTTPError)
PostFaults == {"401", "500", "connection"}

\* the store's answer to POST /v1/snap/<snap>/tracks [{"name": track}]
PostTrack(store, track, fault) ==
    IF fault \in PostFaults THEN [tracks |-> store, status |-> fault]
    ELSE IF track \in store THEN [tracks |-> store, status |-> HTTP_CONFLICT]
    ELSE [tracks |-> store \cup {track}, status |-> HTTP_OK]

\* create_track: r.raise_for_status() raises on every status but 200
create_track(store, track, fault) ==
    LET r == PostTrack(store, track, fault)
    IN [tracks |-> r.tracks, status |-> r.status, raised |-> r.status # HTTP_OK]

\* an ensure_track that lets the 409 out too
ensure_track_strict(store, track, fault) == create_track(store, track, fault)

\* ensure_track: create_track, and a 409 HTTPError swallowed
ensure_track(store, track, fault) ==
    LET c == create_track(store, track, fault)
    IN [c EXCEPT !.raised = c.raised /\ c.status # HTTP_CONFLICT]

\* ensure_snap_channels, lines 46-47: snapstore.ensure_track(SNAP_NAME, track)
EnsureTrack ==
    /\ snap.ensure.n < MaxEnsure
    /\ \E track \in EnsureTracks, fault \in PostFaults \cup {"none"} :
          LET r == ensure_track(snap.store_tracks, track, fault)
              e == snap.ensure
          IN snap' = [snap EXCEPT
                 !.store_tracks = r.tracks,
                 !.ensure = [e EXCEPT
                     !.n = @ + 1,
                     !.posts = Append(@, track),
                     !.track = track,
                     !.status = r.status,
                     !.raised = r.raised,
                     !.before = snap.store_tracks,
                     !.returned = IF r.raised THEN @ ELSE @ \cup {track}]]
    /\ SnapFrame

InitEnsure ==
    /\ InitCharmIdle
    /\ gen = IdleGen
    /\ \E store \in SUBSET EnsureTracks :
          snap = [IdleSnap EXCEPT !.store_tracks = store, !.ensure.initial = store]

NextEnsure == EnsureTrack

SpecEnsure == InitEnsure /\ [][NextEnsure]_vars

\* C25: ensure_track always posts one create_track request for its track; a
\* 409 (the track exists) makes it return normally with the store's tracks as
\* they were; every other HTTP error reaches the caller; and the store's tracks
\* after any number of calls are those it had plus the tracks of the calls
\* that returned, as after one call for each
C25_EnsureTrackIdempotent ==
    LET e == snap.ensure
    IN /\ Len(e.posts) = e.n
       /\ e.n > 0 =>
             /\ e.posts[e.n] = e.track
             /\ e.status = HTTP_CONFLICT =>
                   ~e.raised /\ snap.store_tracks = e.before /\ e.track \in e.before
             /\ e.status \notin {HTTP_OK, HTTP_CONFLICT} =>
                   e.raised /\ snap.store_tracks = e.before
             /\ e.status = HTTP_OK =>
                   ~e.raised /\ snap.store_tracks = e.before \cup {e.track}
       /\ snap.store_tracks = e.initial \cup e.returned

\* the track was created by one call and ensured again by a later one
C25_Witness ==
    LET e == snap.ensure
    IN /\ e.n = 3
       /\ e.status = HTTP_CONFLICT
       /\ e.track \notin e.initial
       /\ e.posts[1] = e.track
       /\ e.posts[2] = e.track

-----------------------------------------------------------------------------
(* Releases to candidate while the script runs *)

\* a new revision of a charm is released to a cell of a candidate channel, at
\* any time: the store is shared with the builds that release to it
PublishAnytime ==
    /\ env.publishLeft > 0
    /\ \E track \in Range(tracks), charm \in Charms, cell \in StoreCells :
          LET revision == NewestRevision(candidate[track][charm]) + 1
          IN /\ revision \in Revs
             /\ candidate' = [candidate EXCEPT ![track][charm] =
                                 RM_set(@, cell[1], cell[2], revision)]
    /\ env' = [Disturbed(env) EXCEPT !.publishLeft = @ - 1]
    /\ UNCHANGED <<tracks, stable, proc>>
    /\ SqaUnchanged /\ PureUnchanged

NextLive ==
    \/ Script(1)
    \/ PublishAnytime
    \/ TestEnds

SpecLive == Init /\ [][NextLive]_vars

\* C26: every revision process_track has promoted to stable is the revision
\* of that cell in the matrices the run queried and tested, also when a
\* newer revision reached the candidate channel after the query
C26_OnlyTestedPromoted ==
    \A p \in Procs :
        LET pr == proc[p]
        IN (pr.pc \in {"promote", "record"} /\ ~pr.faulted) =>
              \A i \in 1..Len(pr.promoted) :
                  LET charm == pr.promoted[i]
                      now == stable[Track(p)][charm]
                  IN \A cell \in DOMAIN now :
                        now[cell] = RM_get(Mat(pr.bundle, charm), cell[1], cell[2])

-----------------------------------------------------------------------------
(* Records on the test platform *)

\* C27: whatever _create_addon calls were made for a name, calls whose
\* "addon show" failed included, the platform holds at most one addon of
\* that name
C27_OneAddonPerName ==
    \A i, j \in 1..Len(addons) : addons[i].name = addons[j].name => i = j

\* start_release_test returned to ensure_track_state in this step
StartReturns(p) == proc[p].pc = "start" /\ proc'[p].pc = "cells"

NoDuplicateRecords ==
    /\ \A i, j \in 1..Len(pvs) : pvs[i] = pvs[j] => i = j
    /\ \A i, j \in 1..Len(addons) : addons[i].name = addons[j].name => i = j

\* C28: whatever step of an earlier start_release_test failed, the platform
\* holds at most one product version per (channel, k8s revision, series) and
\* at most one addon per version name, and every call that returns has
\* created exactly one test plan instance
C28_ResumableWithoutDuplicates ==
    /\ []NoDuplicateRecords
    /\ [][\A p \in Procs : StartReturns(p) => Len(tpis') = Len(tpis) + 1]_vars

-----------------------------------------------------------------------------
(* The promotion loop: the scheduled workflow runs "propose" and then        *)
(* "promote" for every proposal, again and again, and nothing is uploaded.   *)

\* half-days the loop is followed for
LoopTime == 24

\* the latest time a proposal is looked for: past every dwell time
LoopHorizon == LoopTime + 2 * DAYS_TO_STAY_IN_CANDIDATE + 2

\* the channel maps whose tracks are well formed (or "latest")
LoopMaps ==
    {m \in InitMaps :
        \A arch \in DOMAIN m : \A name \in DOMAIN m[arch] :
            WellFormed(name[1]) \/ name[1] = T_latest}

\* what "propose" would return at time t
ProposalsAt(t) == create_proposal(snap.channel_map, snap.args, t).proposals

\* "promote_tracks.py propose" of the workflow, once the proposals of the
\* round before are released
LoopPropose ==
    /\ snap.out.proposals = {}
    /\ snap' = [snap EXCEPT !.kind = "propose", !.at = snap.now,
                            !.out = create_proposal(snap.channel_map, snap.args, snap.now),
                            !.before = snap.channel_map]
    /\ SnapFrame

\* "promote_tracks.py promote" of the workflow, for one proposal of the round
LoopRelease ==
    /\ \E p \in snap.out.proposals :
          LET st == release_revision([channel_map |-> snap.channel_map, calls |-> snap.calls],
                                     p.arch, p.revision, p.snap_channel, FALSE, snap.now)
          IN snap' = [snap EXCEPT !.kind = "release", !.channel_map = st.channel_map,
                                  !.calls = st.calls, !.out.proposals = @ \ {p}]
    /\ SnapFrame

\* half a day passes; the workflow is scheduled often enough to have released
\* what can be released by then
LoopTick ==
    /\ snap.now < LoopTime
    /\ snap.out.proposals = {}
    /\ ProposalsAt(snap.now) = {}
    /\ snap' = [snap EXCEPT !.now = @ + 1]
    /\ SnapFrame

InitLoop ==
    /\ InitCharmIdle
    /\ gen = IdleGen
    /\ \E m \in LoopMaps, args \in ProposeArgs :
          snap = [IdleSnap EXCEPT !.channel_map = m, !.args = args, !.before = m]

NextLoop ==
    \/ LoopPropose
    \/ LoopRelease
    \/ LoopTick

\* the workflow keeps being run and time keeps passing
SpecLoop ==
    /\ InitLoop
    /\ [][NextLoop]_vars
    /\ WF_vars(LoopPropose)
    /\ WF_vars(LoopRelease)
    /\ WF_vars(LoopTick)

\* nothing is left to release, now or at any later time
Settled ==
    /\ snap.out.proposals = {}
    /\ \A t \in snap.now..LoopHorizon : ProposalsAt(t) = {}

\* the step changes one channel of one architecture: a risk level of a track
\* receives the revision the level just below it held at the "propose"
CopiesToNextRisk ==
    \E arch \in DOMAIN snap.channel_map, track \in SnapTracks, i \in 1..(Len(RISK_LEVELS) - 1) :
        LET src == <<track, RISK_LEVELS[i]>>
            dst == <<track, RISK_LEVELS[i + 1]>>
        IN /\ src \in DOMAIN snap.before[arch]
           /\ dst \in DOMAIN snap'.channel_map[arch]
           /\ snap'.channel_map[arch][dst].revision = snap.before[arch][src].revision
           /\ snap'.channel_map =
                 [snap.channel_map EXCEPT ![arch] =
                     [n \in (DOMAIN @) \cup {dst} |->
                         IF n = dst THEN snap'.channel_map[arch][dst] ELSE @[n]]]

-----------------------------------------------------------------------------
(* What ensure_track_state records *)

Recorded == {PASSED, IN_PROGRESS, FAILED}

\* the properties among succeeded, in_progress and failed that hold of ts
Outcomes(ts) == Verdicts(ts) \ {"empty"}

\* C30: every state ensure_track_state records for a cell is PASSED,
\* IN_PROGRESS or FAILED; so a non-empty TrackState it returns is exactly one
\* of succeeded, in_progress and failed, the dispatch never takes its
\* "unknown state" branch, and it answers PROCESS_CI_FAILED for an empty state
\* only
C30_RecordedStatesAreClassified ==
    \A p \in Procs :
        LET pr == proc[p]
        IN /\ \A v \in DOMAIN pr.track_state : pr.track_state[v] \in Recorded
           /\ (pr.pc \in {"promote", "record"} /\ pr.branch \in Branches) =>
                 /\ ~TS_empty(pr.track_state) =>
                       Cardinality(Outcomes(pr.track_state)) = 1
                 /\ pr.branch # "unknown"
                 /\ (pr.pc = "record" /\ ~pr.faulted /\ pr.result = PROCESS_CI_FAILED) =>
                       TS_empty(pr.track_state)

\* a test plan instance of the cell ended in error; the lookup found no status
\* and the cell is recorded as in progress
C30_Witness ==
    \E p \in Procs :
        /\ proc[p].pc = "record"
        /\ proc[p].branch = "in_progress"
        /\ \E i \in 1..Len(tpis) : tpis[i].status = ERROR
        /\ \E v \in DOMAIN proc[p].track_state : proc[p].track_state[v] = IN_PROGRESS

====
